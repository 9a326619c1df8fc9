------------------------- MODULE ConfigStoreProofs -------------------------
(***************************************************************************)
(* The configuration file and the vault for every environment and any      *)
(* number of requests, commands, starts, failed writes and kills:          *)
(*                                                                         *)
(*   RestartInv  drafts load once they are written (AlwaysRestarts);       *)
(*   ShapeInv    types (StoreTypeOK), and under them                       *)
(*   LockInv     who may be writing vault.json, on which rest              *)
(*   SecretInv   the copies of the vault against the references to it      *)
(*               (ReferencedSecretsStored),                                *)
(*   TokenInv    the same copies against the server's token (TokenStable), *)
(*   AckedInv    drafts against the saves acknowledged (AckedSettingsHold).*)
(***************************************************************************)
EXTENDS ConfigStore, SequenceTheorems, TLAPS

\* A draft that save accepts also loads once it is written.
DraftsLoad == \A r \in Reqs : Validate(draft[r]) => Validate(ApplyEnv(draft[r]))

\* A request that has emptied the file is past the validation.
WritersValid == \A r \in Reqs : pc[r] = "write" => Validate(draft[r])

\* Program points of a request.
Points == {"idle", "store", "persist", "save", "write", "done"}

\* The inductive invariant: AlwaysRestarts with what a save is about to write.
RestartInv ==
  /\ env \in Envs
  /\ file.is \in Config
  /\ draft \in [Reqs -> Config]
  /\ pc \in [Reqs -> Points]
  /\ WritersValid
  /\ EnvSound => (Loads /\ DraftsLoad /\ main # "refused")

LEMMA DefaultIsConfig == Default \in Config
  BY DEF Default, Config, Who

LEMMA Overridden ==
  ASSUME env \in Envs, NEW c \in Config
  PROVE  ApplyEnv(c) \in Config
<1>1. \A f \in DOMAIN env : env[f] \in IF f = "host" THEN Who ELSE BOOLEAN
  BY ConfigAssumption
<1>2. /\ Override("host", c.host) \in Who
      /\ \A f \in Overridable \ {"host"}, b \in BOOLEAN : Override(f, b) \in BOOLEAN
  BY <1>1 DEF Override, Config
<1> QED
  BY <1>2 DEF ApplyEnv, Config, Overridable

\* What a sound environment makes of a valid configuration that already has
\* what the environment switches on is valid.
LEMMA SoundKeepsValid ==
  ASSUME env \in Envs, EnvSound, NEW c \in Config, Validate(c),
         Override("grafana", c.grafana) => c.grafana,
         Override("aegis", c.aegis) => c.aegis,
         c.aegis => Override("creds", c.creds)
  PROVE  Validate(ApplyEnv(c))
<1>1. Override("portOk", c.portOk)
  BY DefaultIsConfig DEF EnvSound, Validate, ApplyEnv, Override, Default, Config
<1>2. ASSUME Override("grafana", c.grafana)
      PROVE  Override("endpoint", c.endpoint) /\ Override("authKey", c.authKey) /\ Override("intervalOk", c.intervalOk)
  BY <1>2 DEF EnvSound, Validate, ApplyEnv, Override, Default, Config
<1>3. Override("aegis", c.aegis) => Override("creds", c.creds)
  OBVIOUS
<1> QED
  BY <1>1, <1>2, <1>3 DEF Validate, ApplyEnv, Config

\* Parsing, loading and validating depend on the two files' contents only.
LEMMA LoadTyped ==
  ASSUME env \in Envs, file.is \in Config
  PROVE  Parse(file, Default) \in Config /\ Load \in Config
<1>1. Parse(file, Default) \in Config
  BY DefaultIsConfig DEF Parse
<1> QED
  BY <1>1, Overridden DEF Load

LEMMA EditTyped ==
  ASSUME NEW c \in Config, NEW r \in Reqs, NEW b \in Bodies
  PROVE  /\ b.kind = "names" => MergeNames(c, r, b) \in Config
         /\ b.kind # "names" => ApplyForm(c, r, b) \in Config
<1>1. r \in Who /\ "none" \in Who
  BY DEF Who
<1>2. b \in Forms \cup Payloads
  BY ConfigAssumption
<1>3. ASSUME b.kind = "names" PROVE MergeNames(c, r, b) \in Config
  BY <1>1 DEF MergeNames, Config
<1>4. ASSUME b.kind # "names" PROVE ApplyForm(c, r, b) \in Config
  <2>1. b \in Forms
    BY <1>2, <1>4 DEF Payloads
  <2>2. b.portOk \in BOOLEAN /\ b.intervalOk \in BOOLEAN
    BY <2>1 DEF Forms
  <2>3. PICK p \in BOOLEAN, i \in BOOLEAN, k \in BOOLEAN, e \in BOOLEAN, g \in BOOLEAN, a \in BOOLEAN :
          /\ p = b.portOk /\ i = b.intervalOk /\ k = (c.passwordKey \/ b.password)
          /\ e = (c.endpoint \/ b.grafana # "none") /\ g = (c.grafana \/ b.grafana = "all")
          /\ a = (c.authKey \/ b.grafana = "all")
    BY <2>2, Zenon
  <2>4. ApplyForm(c, r, b) =
          [c EXCEPT !.host = r, !.portOk = p, !.intervalOk = i, !.passwordKey = k,
                    !.endpoint = e, !.grafana = g, !.authKey = a]
    BY <2>3 DEF ApplyForm
  <2>5. [c EXCEPT !.host = r, !.portOk = p, !.intervalOk = i, !.passwordKey = k,
                  !.endpoint = e, !.grafana = g, !.authKey = a] \in Config
    BY <1>1 DEF Config
  <2> QED
    BY <2>4, <2>5, Zenon
<1> QED
  BY <1>3, <1>4

\* What a handler makes of a configuration it loaded can be loaded again: the
\* environment is already in it.
LEMMA EditLoads ==
  ASSUME env \in Envs, file.is \in Config, EnvSound, Loads,
         NEW r \in Reqs, NEW b \in Bodies,
         NEW d, d = IF b.kind = "names" THEN MergeNames(Load, r, b) ELSE ApplyForm(Load, r, b),
         Validate(d)
  PROVE  Validate(ApplyEnv(d))
<1> DEFINE c == Parse(file, Default)
<1>1. c \in Config /\ Load \in Config /\ Load = ApplyEnv(c)
  BY LoadTyped DEF Load
<1>2. d \in Config
  BY <1>1, EditTyped
<1>3. d.aegis = Load.aegis /\ d.creds = Load.creds /\ (Load.grafana => d.grafana)
  BY <1>1 DEF MergeNames, ApplyForm, Config
<1>4. /\ Load.grafana = Override("grafana", c.grafana)
      /\ Load.aegis = Override("aegis", c.aegis)
      /\ Load.creds = Override("creds", c.creds)
  BY <1>1 DEF ApplyEnv
<1>5. Override("grafana", d.grafana) => d.grafana
  BY <1>3, <1>4 DEF Override
<1>6. Override("aegis", d.aegis) => d.aegis
  BY <1>3, <1>4 DEF Override
<1>7. d.aegis => Override("creds", d.creds)
  BY <1>3, <1>4 DEF Override, Loads, Validate
<1> QED
  BY <1>2, <1>5, <1>6, <1>7, SoundKeepsValid

\* A step that leaves both the file and the drafts alone and takes no request to its write.
LEMMA QuietStep ==
  ASSUME RestartInv, UNCHANGED <<env, file, draft>>,
         pc' \in [Reqs -> Points],
         \A r \in Reqs : pc'[r] = "write" => pc[r] = "write",
         EnvSound => main' # "refused"
  PROVE  RestartInv'
<1>1. (EnvSound <=> EnvSound') /\ (Loads <=> Loads')
  BY DEF RestartInv, EnvSound, Loads, Load, Parse, Validate, ApplyEnv, Override
<1>2. DraftsLoad <=> DraftsLoad'
  BY DEF RestartInv, DraftsLoad, Validate, ApplyEnv, Override
<1>3. WritersValid'
  BY DEF RestartInv, WritersValid, Validate
<1> QED
  BY <1>1, <1>2, <1>3 DEF RestartInv

\* Opening and loading: Config::load succeeds, so the request works on a good draft.
LEMMA SubmitStep ==
  ASSUME RestartInv, NEW r \in Reqs, NEW b \in Bodies, Submit(r, b)
  PROVE  RestartInv'
<1> USE DEF RestartInv
<1>1. UNCHANGED <<env, file, main>>
  BY DEF Submit, startVars
<1>2. (EnvSound <=> EnvSound') /\ (Loads <=> Loads')
  BY <1>1 DEF EnvSound, Loads, Load, Parse, Validate, ApplyEnv, Override
<1>3. CASE ~Loads
  <2>1. UNCHANGED draft /\ pc' = [pc EXCEPT ![r] = "done"]
    BY <1>3 DEF Submit
  <2> QED
    BY <1>1, <2>1, QuietStep DEF Points
<1>4. CASE Loads
  <2> DEFINE d == IF b.kind = "names" THEN MergeNames(Load, r, b) ELSE ApplyForm(Load, r, b)
  <2>1. draft' = [draft EXCEPT ![r] = d] /\ pc' = [pc EXCEPT ![r] = After(Secrets(b))]
    BY <1>4 DEF Submit
  <2>2. d \in Config
    BY LoadTyped, EditTyped
  <2>3. pc' \in [Reqs -> Points] /\ pc'[r] # "write"
    BY <2>1 DEF After, Points
  <2>4. WritersValid'
    BY <2>1, <2>3 DEF WritersValid, Validate
  <2>5. ASSUME EnvSound PROVE DraftsLoad'
    <3>1. Validate(d) => Validate(ApplyEnv(d))
      BY <1>4, <2>5, EditLoads
    <3>2. DraftsLoad
      BY <2>5
    <3> HIDE DEF d
    <3> QED
      BY <1>1, <2>1, <3>1, <3>2 DEF DraftsLoad, Validate, ApplyEnv, Override
  <2>6. draft' \in [Reqs -> Config]
    BY <2>1, <2>2
  <2> QED
    BY <1>1, <1>2, <2>3, <2>4, <2>5, <2>6
<1> QED
  BY <1>3, <1>4

\* The validation that stands between a draft and the file.
LEMMA SaveStep ==
  ASSUME RestartInv, NEW r \in Reqs, Save(r)
  PROVE  RestartInv'
<1> USE DEF RestartInv
<1>1. UNCHANGED <<env, draft, main>>
  BY DEF Save, startVars
<1>2. CASE ~Validate(draft[r])
  <2>1. UNCHANGED file /\ pc' = [pc EXCEPT ![r] = "done"]
    BY <1>2 DEF Save
  <2> QED
    BY <1>1, <2>1, QuietStep DEF Points
<1>3. CASE Validate(draft[r])
  <2>1. file' = Emptied(Default) /\ pc' = [pc EXCEPT ![r] = "write"]
    BY <1>3 DEF Save
  <2>2. file'.is \in Config /\ pc' \in [Reqs -> Points]
    BY <2>1, DefaultIsConfig DEF Emptied, Points
  <2>3. WritersValid'
    BY <1>1, <1>3, <2>1 DEF WritersValid, Validate
  <2>4. EnvSound <=> EnvSound'
    BY <1>1 DEF EnvSound, Validate, ApplyEnv, Override
  <2>5. DraftsLoad <=> DraftsLoad'
    BY <1>1 DEF DraftsLoad, Validate, ApplyEnv, Override
  <2>6. EnvSound => Loads'
    BY <1>1, <2>1 DEF EnvSound, Loads, Load, Parse, Emptied, Validate, ApplyEnv, Override
  <2> QED
    BY <1>1, <2>2, <2>3, <2>4, <2>5, <2>6
<1> QED
  BY <1>2, <1>3

\* The write: what lands is a validated draft, or bytes that parse as nothing.
LEMMA WriteStep ==
  ASSUME RestartInv, NEW r \in Reqs, WriteConfig(r)
  PROVE  RestartInv'
<1> USE DEF RestartInv
<1>1. UNCHANGED <<env, draft, main>> /\ pc' = [pc EXCEPT ![r] = "done"]
  BY DEF WriteConfig, startVars
<1>2. CASE UNCHANGED file
  BY <1>1, <1>2, QuietStep DEF Points
<1>3. CASE file' \in Written(file, draft[r], Default)
  <2>1. file'.is \in Config /\ pc' \in [Reqs -> Points]
    BY <1>1, <1>3, DefaultIsConfig DEF Written, Whole, Points
  <2>2. WritersValid'
    BY <1>1 DEF WritersValid, Validate
  <2>3. EnvSound <=> EnvSound'
    BY <1>1 DEF EnvSound, Validate, ApplyEnv, Override
  <2>4. DraftsLoad <=> DraftsLoad'
    BY <1>1 DEF DraftsLoad, Validate, ApplyEnv, Override
  <2>5. Parse(file', Default) \in {draft[r], Default}
    BY <1>3 DEF Parse, Written, Whole
  <2>6. Validate(draft[r])
    BY DEF WriteConfig, WritersValid
  <2>7. ASSUME EnvSound PROVE Loads'
    <3>1. Validate(ApplyEnv(draft[r])) /\ Validate(ApplyEnv(Default))
      BY <2>6, <2>7 DEF DraftsLoad, EnvSound
    <3>2. Validate(ApplyEnv(Parse(file', Default)))
      BY <2>5, <3>1
    <3> QED
      BY <1>1, <3>2 DEF Loads, Load, Parse, Validate, ApplyEnv, Override
  <2> QED
    BY <1>1, <2>1, <2>2, <2>3, <2>4, <2>7
<1> QED
  BY <1>2, <1>3 DEF WriteConfig

\* config-init, which leaves the file alone, empty, torn or with the default in it.
LEMMA InitStep ==
  ASSUME RestartInv, ConfigInit
  PROVE  RestartInv'
<1> USE DEF RestartInv
<1>1. UNCHANGED <<env, draft, main, pc>>
  BY DEF ConfigInit, CheckAbsent, EmptyForDefault, WriteDefault, AbandonDefault, startVars, reqVars
<1>2. file' = file \/ (file'.is = Default /\ Parse(file', Default) = Default)
  BY DEF ConfigInit, CheckAbsent, EmptyForDefault, WriteDefault, AbandonDefault, Emptied, Written, Whole, Parse
<1>3. CASE file' = file
  BY <1>1, <1>3, QuietStep
<1>4. CASE file'.is = Default /\ Parse(file', Default) = Default
  <2>2. file'.is \in Config
    BY <1>4, DefaultIsConfig
  <2>3. WritersValid'
    BY <1>1 DEF WritersValid, Validate
  <2>4. EnvSound <=> EnvSound'
    BY <1>1 DEF EnvSound, Validate, ApplyEnv, Override
  <2>5. DraftsLoad <=> DraftsLoad'
    BY <1>1 DEF DraftsLoad, Validate, ApplyEnv, Override
  <2>6. EnvSound => Loads'
    BY <1>1, <1>4 DEF EnvSound, Loads, Load, Validate, ApplyEnv, Override
  <2> QED
    BY <1>1, <2>2, <2>3, <2>4, <2>5, <2>6
<1> QED
  BY <1>2, <1>3, <1>4

LEMMA RestartInvInit == StoreInit => RestartInv
<1> SUFFICES ASSUME StoreInit PROVE RestartInv
  OBVIOUS
<1>1. file.is \in Config
  BY DefaultIsConfig, ConfigAssumption DEF StoreInit, Whole
<1>2. draft \in [Reqs -> Config] /\ pc \in [Reqs -> Points]
  BY DefaultIsConfig DEF StoreInit, Points
<1>3. WritersValid
  BY DEF StoreInit, WritersValid
<1>4. EnvSound => DraftsLoad
  BY DEF StoreInit, EnvSound, DraftsLoad
<1> QED
  BY <1>1, <1>2, <1>3, <1>4 DEF RestartInv, StoreInit

LEMMA RestartInvStep == RestartInv /\ [StoreNext]_storeVars => RestartInv'
<1> SUFFICES ASSUME RestartInv, [StoreNext]_storeVars PROVE RestartInv'
  OBVIOUS
<1>0. pc \in [Reqs -> Points]
  BY DEF RestartInv
<1>1. CASE Start
  BY <1>1, QuietStep DEF Start, RestartInv, reqVars
<1>2. CASE PassProbe
  BY <1>2, QuietStep DEF PassProbe, RestartInv, reqVars
<1>3. CASE TakeToken
  BY <1>3, QuietStep DEF TakeToken, RestartInv, reqVars
<1>4. CASE KeepToken
  BY <1>4, QuietStep DEF KeepToken, RestartInv, reqVars
<1>5. CASE Kill
  BY <1>5, QuietStep DEF Kill, RestartInv, Points
<1>6. ASSUME NEW r \in Reqs, NEW b \in Bodies, Submit(r, b) PROVE RestartInv'
  BY <1>6, SubmitStep
<1>7. ASSUME NEW r \in Reqs, RequestStep(r) PROVE RestartInv'
  <2>1. CASE StoreSecret(r)
    <3>1. pc' = [pc EXCEPT ![r] = "persist"] /\ UNCHANGED <<env, file, draft, main>>
      BY <2>1 DEF StoreSecret, startVars
    <3> QED
      BY <1>0, <3>1, QuietStep DEF RestartInv, Points
  <2>2. CASE PersistSecret(r)
    <3>1. pc' = [pc EXCEPT ![r] = After(Tail(todo[r]))] /\ UNCHANGED <<env, file, draft, main>>
      BY <2>2 DEF PersistSecret, startVars
    <3>2. After(Tail(todo[r])) \in {"save", "store"}
      BY DEF After
    <3> QED
      BY <1>0, <3>1, <3>2, QuietStep DEF RestartInv, Points
  <2>3. CASE FailSecret(r)
    <3>1. pc' = [pc EXCEPT ![r] = "done"] /\ UNCHANGED <<env, file, draft, main>>
      BY <2>3 DEF FailSecret, startVars
    <3> QED
      BY <1>0, <3>1, QuietStep DEF RestartInv, Points
  <2>4. CASE Save(r)
    BY <2>4, SaveStep
  <2>5. CASE WriteConfig(r)
    BY <2>5, WriteStep
  <2> QED
    BY <1>7, <2>1, <2>2, <2>3, <2>4, <2>5 DEF RequestStep
<1>8. ASSUME NEW k \in CliKeys, CliOpen(k) PROVE RestartInv'
  BY <1>8, QuietStep DEF CliOpen, RestartInv, startVars, reqVars
<1>9. CASE CliTruncate
  BY <1>9, QuietStep DEF CliTruncate, RestartInv, startVars, reqVars
<1>10. CASE CliWrite
  BY <1>10, QuietStep DEF CliWrite, RestartInv, startVars, reqVars
<1>11. CASE ConfigInit
  BY <1>11, InitStep
<1>12. CASE UNCHANGED storeVars
  BY <1>12, QuietStep DEF storeVars, RestartInv, startVars, reqVars
<1> QED
  BY <1>1, <1>2, <1>3, <1>4, <1>5, <1>6, <1>7, <1>8, <1>9, <1>10, <1>11, <1>12 DEF StoreNext

\* run() never finds a config.toml it cannot load: what Config::save, a write
\* that failed or was cut short, overlapping saves and config-init leave always
\* loads under the environment it was made in, if that is sound.
THEOREM RestartSafe == StoreSpec => []AlwaysRestarts
<1>1. RestartInv => AlwaysRestarts
  BY DEF RestartInv, AlwaysRestarts
<1> QED
  BY <1>1, RestartInvInit, RestartInvStep, PTL DEF StoreSpec

-----------------------------------------------------------------------------
\* Type correctness.

\* The secrets a request can have left to store.
Todos == {<<>>, <<"obs_password">>, <<"grafana_auth">>, <<"obs_password", "grafana_auth">>}

\* The type invariant with what makes it inductive: a start that has begun has a
\* token at hand, and a request that stores a secret has one to store.
ShapeInv ==
  /\ env \in Envs
  /\ StoreTypeOK
  /\ main # "down" => runs \in 1..MaxRuns
  /\ todo \in [Reqs -> Todos]
  /\ \A r \in Reqs : pc[r] \in {"store", "persist"} => todo[r] # <<>>

LEMMA Vocabulary ==
  /\ {"obs_password", "grafana_auth", "server_token", "access_jwt"} \subseteq Keys
  /\ {"none", "old", "cli"} \subseteq Secret
  /\ Reqs \subseteq Secret
  /\ \A i \in 1..MaxRuns : Tokens[i] \in Secret /\ Tokens[i] # "none"
  /\ EmptyVault \in [Keys -> Secret]
<1>1. \A i \in 1..MaxRuns : Tokens[i] \in Secret /\ Tokens[i] # "none"
  BY ConfigAssumption DEF Secret
<1>2. {"none", "old", "cli"} \subseteq Secret /\ Reqs \subseteq Secret
  BY DEF Secret, Who
<1> QED BY <1>1, <1>2 DEF Keys, EmptyVault

\* What the lists of secrets left to store are made of.
LEMMA TodoFacts ==
  /\ <<>> \in Todos
  /\ \A t \in Todos : t \in Seq(Keys)
  /\ \A t \in Todos : t # <<>> => Head(t) \in Keys /\ Tail(t) \in Todos
<1>1. {"obs_password", "grafana_auth"} \subseteq Keys
  BY Vocabulary
<1> QED BY <1>1 DEF Todos

\* A handler is left with the secrets of its form to store.
LEMMA SecretsTyped ==
  ASSUME NEW b \in Bodies
  PROVE  Secrets(b) \in Todos
<1>1. /\ <<>> \o <<>> = <<>> /\ <<>> \o <<"grafana_auth">> = <<"grafana_auth">>
      /\ <<"obs_password">> \o <<>> = <<"obs_password">>
      /\ <<"obs_password">> \o <<"grafana_auth">> = <<"obs_password", "grafana_auth">>
  <2>1. /\ <<>> \in Seq(Keys) /\ <<"obs_password">> \in Seq(Keys)
        /\ <<"grafana_auth">> \in Seq(Keys)
    BY DEF Keys
  <2>2. /\ <<>> \o <<>> = <<>> /\ <<>> \o <<"grafana_auth">> = <<"grafana_auth">>
        /\ <<"obs_password">> \o <<>> = <<"obs_password">>
    BY <2>1, ConcatEmptySeq
  <2>3. <<"obs_password">> \o <<"grafana_auth">> = <<"obs_password", "grafana_auth">>
    <3> DEFINE t == <<"obs_password">> \o <<"grafana_auth">>
    <3>1. t \in Seq(Keys) /\ Len(t) = 2 /\ t[1] = "obs_password" /\ t[2] = "grafana_auth"
      BY <2>1, ConcatProperties
    <3> HIDE DEF t
    <3>2. t = <<"obs_password", "grafana_auth">>
      BY <3>1
    <3> QED BY <3>2 DEF t
  <2> QED BY <2>2, <2>3
<1>2. CASE b.kind = "names"
  BY <1>2 DEF Secrets, Todos
<1>3. CASE b.kind # "names" /\ b.password /\ b.grafana = "all"
  BY <1>1, <1>3 DEF Secrets, Todos
<1>4. CASE b.kind # "names" /\ b.password /\ b.grafana # "all"
  BY <1>1, <1>4 DEF Secrets, Todos
<1>5. CASE b.kind # "names" /\ ~b.password /\ b.grafana = "all"
  BY <1>1, <1>5 DEF Secrets, Todos
<1>6. CASE b.kind # "names" /\ ~b.password /\ b.grafana # "all"
  BY <1>1, <1>6 DEF Secrets, Todos
<1> QED BY <1>2, <1>3, <1>4, <1>5, <1>6

\* A write of the vault file leaves a vault or bytes that read as none.
LEMMA WrittenTyped ==
  ASSUME NEW f, NEW S, NEW content \in S, NEW blank \in S, NEW g \in Written(f, content, blank)
  PROVE  g.at \in {"whole", "torn"} /\ g.is \in S
BY DEF Written, Whole

LEMMA OpenVaultTyped ==
  ASSUME StoreTypeOK
  PROVE  OpenVault \in [Keys -> Secret]
BY Vocabulary DEF StoreTypeOK, OpenVault, Parse

LEMMA ShapeInit == StoreInit => ShapeInv
<1> SUFFICES ASSUME StoreInit PROVE ShapeInv
  OBVIOUS
<1>1. file.at \in {"missing", "empty", "torn", "whole"} /\ file.is \in Config
  BY DefaultIsConfig, ConfigAssumption DEF StoreInit, Whole
<1>2. vaultFile.at \in {"missing", "empty", "torn", "whole"} /\ vaultFile.is \in [Keys -> Secret]
  BY Vocabulary DEF StoreInit, Whole
<1>3. runs \in 0..MaxRuns /\ faults \in 0..MaxFaults
  BY ConfigAssumption DEF StoreInit
<1>4. todo \in [Reqs -> Todos] /\ todo \in [Reqs -> Seq(Keys)]
  BY TodoFacts DEF StoreInit
<1>5. draft \in [Reqs -> Config] /\ acked \in Seq(Reqs)
  BY DefaultIsConfig DEF StoreInit
<1> QED BY <1>1, <1>2, <1>3, <1>4, <1>5, Vocabulary DEF StoreInit, ShapeInv, StoreTypeOK

LEMMA ShapeStep ==
  ASSUME ShapeInv, [StoreNext]_storeVars
  PROVE  ShapeInv'
<1> USE DEF ShapeInv, StoreTypeOK, startVars, reqVars, cliVars, histVars
<1>0. OpenVault \in [Keys -> Secret] /\ OpenVault["grafana_auth"] \in Secret
  BY OpenVaultTyped, Vocabulary
<1>1. CASE Start
  BY <1>0, <1>1, ConfigAssumption DEF Start
<1>2. CASE PassProbe
  BY <1>2 DEF PassProbe
<1>3. CASE TakeToken
  <2>1. "server_token" \in Keys /\ vault["server_token"] \in Secret /\ Tokens[runs] \in Secret
    BY <1>3, Vocabulary DEF TakeToken
  <2>2. vaultFile'.at \in {"missing", "empty", "torn", "whole"} /\ vaultFile'.is \in [Keys -> Secret]
    BY <1>3, Vocabulary DEF TakeToken, BeginStore, Emptied
  <2>3. vault' \in [Keys -> Secret] /\ token' \in Secret
    BY <1>3, <2>1, Vocabulary DEF TakeToken, BeginStore
  <2> QED BY <1>3, <2>2, <2>3 DEF TakeToken
<1>4. CASE KeepToken
  <2>1. vaultFile'.at \in {"missing", "empty", "torn", "whole"} /\ vaultFile'.is \in [Keys -> Secret]
    BY <1>4, Vocabulary DEF KeepToken, EndStore, Written, Whole
  <2>2. faults' \in 0..MaxFaults
    BY <1>4, ConfigAssumption DEF KeepToken
  <2>3. vaultHurt' \in BOOLEAN
    BY <1>4, Zenon DEF KeepToken, EndStore
  <2> QED BY <1>4, <2>1, <2>2, <2>3 DEF KeepToken
<1>5. CASE Kill
  BY <1>5, ConfigAssumption DEF Kill
<1>6. ASSUME NEW r \in Reqs, NEW b \in Bodies, Submit(r, b)
      PROVE  ShapeInv'
  <2>1. CASE ~Loads
    BY <1>6, <2>1 DEF Submit
  <2>2. CASE Loads
    <3> DEFINE d == IF b.kind = "names" THEN MergeNames(Load, r, b) ELSE ApplyForm(Load, r, b)
    <3>1. d \in Config
      BY LoadTyped, EditTyped
    <3>2. Secrets(b) \in Todos /\ Secrets(b) \in Seq(Keys)
      BY SecretsTyped, TodoFacts
    <3>3. draft' = [draft EXCEPT ![r] = d]
      BY <1>6, <2>2 DEF Submit
    <3> HIDE DEF d
    <3>4. draft' \in [Reqs -> Config]
      BY <3>1, <3>3
    <3>5. pc' = [pc EXCEPT ![r] = After(Secrets(b))] /\ todo' = [todo EXCEPT ![r] = Secrets(b)]
      BY <1>6, <2>2 DEF Submit
    <3>6. /\ pc' \in [Reqs -> {"idle", "store", "persist", "save", "write", "done"}]
          /\ todo' \in [Reqs -> Todos] /\ todo' \in [Reqs -> Seq(Keys)]
          /\ \A q \in Reqs : pc'[q] \in {"store", "persist"} => todo'[q] # <<>>
      BY <3>2, <3>5 DEF After
    <3> QED BY <1>6, <2>2, <3>4, <3>6 DEF Submit
  <2> QED BY <2>1, <2>2
<1>7. ASSUME NEW r \in Reqs, RequestStep(r)
      PROVE  ShapeInv'
  <2>0. todo[r] # <<>> => Head(todo[r]) \in Keys /\ Tail(todo[r]) \in Todos /\ Tail(todo[r]) \in Seq(Keys)
    BY TodoFacts
  <2>1. CASE StoreSecret(r)
    <3>1. todo[r] # <<>> /\ r \in Secret
      BY <2>1, Vocabulary DEF StoreSecret
    <3>2. vault' \in [Keys -> Secret] /\ vaultFile' = Emptied(EmptyVault)
      BY <2>0, <2>1, <3>1 DEF StoreSecret, BeginStore
    <3> QED BY <2>1, <3>1, <3>2, Vocabulary DEF StoreSecret, Emptied
  <2>2. CASE PersistSecret(r)
    <3>1. vaultFile'.at \in {"missing", "empty", "torn", "whole"} /\ vaultFile'.is \in [Keys -> Secret]
      BY <2>2, Vocabulary DEF PersistSecret, EndStore, Written, Whole
    <3>2. Tail(todo[r]) \in Todos /\ Tail(todo[r]) \in Seq(Keys)
      BY <2>0, <2>2 DEF PersistSecret
    <3>3. vaultHurt' \in BOOLEAN /\ configured' \in BOOLEAN
      BY <2>2 DEF PersistSecret, EndStore
    <3>4. pc' = [pc EXCEPT ![r] = After(Tail(todo[r]))] /\ todo' = [todo EXCEPT ![r] = Tail(todo[r])]
      BY <2>2 DEF PersistSecret
    <3>5. /\ pc' \in [Reqs -> {"idle", "store", "persist", "save", "write", "done"}]
          /\ todo' \in [Reqs -> Todos] /\ todo' \in [Reqs -> Seq(Keys)]
          /\ \A q \in Reqs : pc'[q] \in {"store", "persist"} => todo'[q] # <<>>
      BY <3>2, <3>4 DEF After
    <3> QED BY <2>2, <3>1, <3>3, <3>5 DEF PersistSecret
  <2>3. CASE FailSecret(r)
    BY <2>3, ConfigAssumption DEF FailSecret
  <2>4. CASE Save(r)
    <3>1. file'.at \in {"missing", "empty", "torn", "whole"} /\ file'.is \in Config
      BY <2>4, DefaultIsConfig DEF Save, Emptied
    <3>2. hurt' \in BOOLEAN
      BY <2>4, Zenon DEF Save
    <3>3. clean' \subseteq Reqs
      BY <2>4 DEF Save
    <3> QED BY <2>4, <3>1, <3>2, <3>3 DEF Save
  <2>5. CASE WriteConfig(r)
    <3>1. file'.at \in {"missing", "empty", "torn", "whole"} /\ file'.is \in Config
      BY <2>5, DefaultIsConfig DEF WriteConfig, Written, Whole
    <3>2. hurt' \in BOOLEAN
      BY <2>5, Zenon DEF WriteConfig
    <3>3. faults' \in 0..MaxFaults /\ acked' \in Seq(Reqs)
      <4>1. Append(acked, r) \in Seq(Reqs)
        OBVIOUS
      <4>2. acked' \in Seq(Reqs)
        BY <2>5, <4>1, Zenon DEF WriteConfig
      <4>3. faults' = faults \/ (faults < MaxFaults /\ faults' = faults + 1)
        BY <2>5, Zenon DEF WriteConfig
      <4> QED BY <4>2, <4>3, ConfigAssumption
    <3> QED BY <2>5, <3>1, <3>2, <3>3 DEF WriteConfig
  <2> QED BY <1>7, <2>1, <2>2, <2>3, <2>4, <2>5 DEF RequestStep
<1>8. ASSUME NEW k \in CliKeys, CliOpen(k)
      PROVE  ShapeInv'
  BY <1>0, <1>8, Vocabulary, ConfigAssumption DEF CliOpen
<1>9. CASE CliTruncate
  BY <1>9, Vocabulary DEF CliTruncate, Emptied
<1>10. CASE CliWrite
  BY <1>10, Vocabulary DEF CliWrite, Written, Whole
<1>11. CASE ConfigInit
  <2>1. file'.at \in {"missing", "empty", "torn", "whole"} /\ file'.is \in Config
    BY <1>11, DefaultIsConfig
    DEF ConfigInit, CheckAbsent, EmptyForDefault, WriteDefault, AbandonDefault, Emptied, Written, Whole
  <2>2. hurt' \in BOOLEAN
    BY <1>11, Zenon DEF ConfigInit, CheckAbsent, EmptyForDefault, WriteDefault, AbandonDefault
  <2>3. setup' \in {"idle", "absent", "write", "done"} /\ faults' \in 0..MaxFaults
    BY <1>11, ConfigAssumption DEF ConfigInit, CheckAbsent, EmptyForDefault, WriteDefault, AbandonDefault
  <2>4. UNCHANGED <<env, vaultFile, startVars, vault, reqVars, configured, cli, cliVault, clean, acked, vaultHurt>>
    BY <1>11 DEF ConfigInit, CheckAbsent, EmptyForDefault, WriteDefault, AbandonDefault
  <2> QED BY <2>1, <2>2, <2>3, <2>4
<1>12. CASE UNCHANGED storeVars
  BY <1>12 DEF storeVars
<1> QED
  BY <1>1, <1>2, <1>3, <1>4, <1>5, <1>6, <1>7, <1>8, <1>9, <1>10, <1>11, <1>12 DEF StoreNext

\* Variables have their types, a start that has begun has a token at hand, and a
\* request at its secrets has one to store.
THEOREM ShapeInvariant == StoreSpec => []ShapeInv
  BY ShapeInit, ShapeStep, PTL DEF StoreSpec

\* Type correctness of the files, the vaults, the requests and the history of
\* saves, for every configuration, form and number of starts.
THEOREM StoreTypes == StoreSpec => []StoreTypeOK
<1>1. ShapeInv => StoreTypeOK
  BY DEF ShapeInv
<1> QED BY <1>1, ShapeInvariant, PTL

-----------------------------------------------------------------------------
\* Secrets and the token: what the copies of the vault hold.

\* Program points of a request that has loaded the configuration and not saved yet.
Editing == {"store", "persist", "save", "write"}

\* The core has opened the vault and is not dead.
Alive == main \in {"loaded", "token", "persist", "up"}

\* A configuration refers to a secret.
Refers(c, k) ==
  \/ k = "obs_password" /\ c.passwordKey
  \/ k = "grafana_auth" /\ c.authKey

\* A request has the secret still to store.
Pending(t, k) == \E i \in DOMAIN t : t[i] = k

\* The secrets that must not be lost: those the file refers to, those a draft
\* refers to that is past storing them, and the credentials the page reports.
Wanted(k) ==
  \/ Refers(Parse(file, Default), k)
  \/ \E r \in Reqs : pc[r] \in Editing /\ Refers(draft[r], k) /\ ~Pending(todo[r], k)
  \/ k = "grafana_auth" /\ configured /\ Alive

\* The vault copies that have all of them.
Keeps(m) == \A k \in Keys : Wanted(k) => m[k] # "none"

\* The mutex around the vault: only a server that is up has requests in flight,
\* one of them at a time writes the vault, a vault file being written is empty,
\* and a request saves when all its secrets are stored.
LockInv ==
  /\ main # "up" => \A r \in Reqs : pc[r] \in {"idle", "done"}
  /\ \A q, r \in Reqs : pc[q] = "persist" /\ pc[r] = "persist" => q = r
  /\ ~vaultHurt /\ (VaultHeld \/ cli = "write") => vaultFile.at = "empty"
  /\ \A r \in Reqs : pc[r] = "persist" => vault[Head(todo[r])] # "none"
  /\ \A r \in Reqs : pc[r] \in {"save", "write"} => todo[r] = <<>>

\* Unless a write of the vault was cut short or overlapped another one, all
\* three copies have the wanted secrets: the core's, vault.json when nobody
\* writes it, and the one a vault-set command is about to write.
SecretInv ==
  ~vaultHurt =>
    /\ Alive => Keeps(vault)
    /\ ~VaultHeld /\ cli # "write" => Keeps(OpenVault)
    /\ CliBusy /\ ~VaultHeld => Keeps(cliVault)

\* The same copies agree on the server's token, and once the server has had one
\* of its own they hold that one.
CopiesAgree ==
  /\ ~vaultHurt =>
       /\ Alive /\ ~VaultHeld /\ cli # "write" => OpenVault["server_token"] = vault["server_token"]
       /\ Alive /\ ~VaultHeld /\ CliBusy => cliVault["server_token"] = vault["server_token"]
       /\ ~VaultHeld /\ cli = "read" => cliVault["server_token"] = OpenVault["server_token"]
  /\ ~vaultHurt /\ token # "none" =>
       /\ Alive => vault["server_token"] = token
       /\ ~VaultHeld /\ cli # "write" => OpenVault["server_token"] = token
       /\ ~VaultHeld /\ CliBusy => cliVault["server_token"] = token

\* And once it has had one no configuration sets another.
TokenInv ==
  /\ token # "none" =>
       /\ ~Load.token
       /\ \A r \in Reqs : pc[r] \in Editing => ~Override("token", draft[r].token)
  /\ CopiesAgree

\* Every step keeps the mutex.
LEMMA LockStep ==
  ASSUME ShapeInv, LockInv, [StoreNext]_storeVars
  PROVE  LockInv'
<1> USE DEF ShapeInv, StoreTypeOK, LockInv, VaultHeld, startVars, reqVars, cliVars, histVars
<1>1. CASE Start
  BY <1>1 DEF Start
<1>2. CASE PassProbe
  BY <1>2 DEF PassProbe
<1>3. CASE TakeToken
  BY <1>3 DEF TakeToken, BeginStore, Emptied
<1>4. CASE KeepToken
  <2>1. \A r \in Reqs : pc[r] \in {"idle", "done"}
    BY <1>4 DEF KeepToken
  <2>2. main' = "up" /\ UNCHANGED <<pc, cli, vault, todo>>
    BY <1>4 DEF KeepToken
  <2>3. vaultHurt' \/ (cli # "write")
    BY <1>4 DEF KeepToken, EndStore, CliBusy
  <2> QED BY <2>1, <2>2, <2>3
<1>5. CASE Kill
  BY <1>5 DEF Kill
<1>6. ASSUME NEW r \in Reqs, NEW b \in Bodies, Submit(r, b)
      PROVE  LockInv'
  <2>1. /\ UNCHANGED <<main, vaultHurt, cli, vaultFile, vault>>
        /\ main = "up"
        /\ \A q \in Reqs : q # r => pc'[q] = pc[q] /\ todo'[q] = todo[q]
    BY <1>6 DEF Submit
  <2>2. pc[r] = "idle" /\ pc'[r] \in {"store", "save", "done"} /\ (pc'[r] = "save" => todo'[r] = <<>>)
    BY <1>6 DEF Submit, After
  <2> QED BY <2>1, <2>2
<1>7. ASSUME NEW r \in Reqs, RequestStep(r)
      PROVE  LockInv'
  <2>1. CASE StoreSecret(r)
    <3>1. r # "none" /\ todo[r] # <<>> /\ Head(todo[r]) \in Keys
      BY <2>1, ConfigAssumption, TodoFacts DEF StoreSecret
    <3>2. /\ vault'[Head(todo[r])] = r /\ vaultFile'.at = "empty"
          /\ pc' = [pc EXCEPT ![r] = "persist"]
          /\ UNCHANGED <<main, todo, cli, vaultHurt>>
      BY <2>1, <3>1 DEF StoreSecret, BeginStore, Emptied
    <3>3. \A q \in Reqs : pc[q] # "persist"
      BY <2>1 DEF StoreSecret
    <3> QED BY <2>1, <3>1, <3>2, <3>3 DEF StoreSecret
  <2>2. CASE PersistSecret(r)
    <3>1. /\ \A q \in Reqs : q # r => pc'[q] = pc[q] /\ pc[q] # "persist" /\ todo'[q] = todo[q]
          /\ pc'[r] \in {"store", "save"} /\ (pc'[r] = "save" => todo'[r] = <<>>)
          /\ UNCHANGED <<main, cli, vault>> /\ main = "up"
      BY <2>2 DEF PersistSecret, After
    <3>2. vaultHurt' \/ (cli # "write")
      BY <2>2 DEF PersistSecret, EndStore, CliBusy
    <3> QED BY <3>1, <3>2
  <2>3. CASE FailSecret(r)
    BY <2>3 DEF FailSecret
  <2>4. CASE Save(r)
    <3>1. /\ \A q \in Reqs : q # r => pc'[q] = pc[q]
          /\ pc[r] = "save" /\ pc'[r] \in {"write", "done"}
          /\ UNCHANGED <<main, todo, cli, vault, vaultFile, vaultHurt>>
      BY <2>4 DEF Save
    <3> QED BY <3>1
  <2>5. CASE WriteConfig(r)
    BY <2>5 DEF WriteConfig
  <2> QED BY <1>7, <2>1, <2>2, <2>3, <2>4, <2>5 DEF RequestStep
<1>8. ASSUME NEW k \in CliKeys, CliOpen(k)
      PROVE  LockInv'
  BY <1>8 DEF CliOpen
<1>9. CASE CliTruncate
  BY <1>9 DEF CliTruncate, Emptied
<1>10. CASE CliWrite
  BY <1>10 DEF CliWrite
<1>11. CASE ConfigInit
  BY <1>11 DEF ConfigInit, CheckAbsent, EmptyForDefault, WriteDefault, AbandonDefault
<1>12. CASE UNCHANGED storeVars
  BY <1>12 DEF storeVars
<1> QED
  BY <1>1, <1>2, <1>3, <1>4, <1>5, <1>6, <1>7, <1>8, <1>9, <1>10, <1>11, <1>12 DEF StoreNext

\* The requests, the start and the command never break the mutex, whatever fails.
THEOREM LockInvariant == StoreSpec => []LockInv
<1>1. StoreInit => LockInv
  BY DEF StoreInit, LockInv, VaultHeld
<1> QED BY <1>1, LockStep, ShapeInvariant, PTL DEF StoreSpec

\* A write of the vault that nothing overlaps leaves exactly what was written.
LEMMA CleanWrite ==
  ASSUME ShapeInv, NEW m, vaultFile.at = "empty", vaultFile' \in Written(vaultFile, m, EmptyVault)
  PROVE  OpenVault' = m
BY DEF Written, Whole, OpenVault, Parse

\* The installation refers to no secret yet: neither its files nor the
\* environment name a password or credentials that nobody has stored.
NoSecretsInstalled ==
  /\ \A c \in Files : ~c.passwordKey /\ ~c.authKey
  /\ \A e \in Envs : \A f \in DOMAIN e \cap {"passwordKey", "authKey"} : ~e[f]

\* A list that is worked off: the head is the secret it has no more.
LEMMA PendingTail ==
  ASSUME NEW t \in Todos, t # <<>>, NEW k, ~Pending(Tail(t), k)
  PROVE  k = Head(t) \/ ~Pending(t, k)
<1>1. t \in Seq(Keys)
  BY TodoFacts
<1>2. ASSUME NEW i \in DOMAIN t, i # 1
      PROVE  i - 1 \in DOMAIN Tail(t) /\ Tail(t)[i - 1] = t[i]
  BY <1>1, <1>2
<1>3. Head(t) = t[1]
  BY <1>1
<1> QED BY <1>2, <1>3 DEF Pending

\* What a form switches on it has to store.
LEMMA SecretsPending ==
  ASSUME NEW b \in Bodies, b.kind # "names"
  PROVE  /\ b.password => Pending(Secrets(b), "obs_password")
         /\ b.grafana = "all" => Pending(Secrets(b), "grafana_auth")
<1>1. {"obs_password", "grafana_auth"} \subseteq Keys
  BY DEF Keys
<1>2. /\ <<>> \in Seq(Keys) /\ <<"obs_password">> \in Seq(Keys)
      /\ <<"grafana_auth">> \in Seq(Keys)
  BY DEF Keys
<1>3. <<>> \o <<"grafana_auth">> = <<"grafana_auth">> /\ <<"obs_password">> \o <<>> = <<"obs_password">>
  BY <1>2, ConcatEmptySeq
<1>4. CASE b.password /\ b.grafana = "all"
  <2> DEFINE t == <<"obs_password">> \o <<"grafana_auth">>
  <2>1. t \in Seq(Keys) /\ Len(t) = 2 /\ t[1] = "obs_password" /\ t[2] = "grafana_auth"
    BY <1>2, ConcatProperties
  <2>2. Secrets(b) = t
    BY <1>4 DEF Secrets
  <2> HIDE DEF t
  <2>3. 1 \in DOMAIN t /\ 2 \in DOMAIN t
    BY <2>1
  <2> QED BY <2>1, <2>2, <2>3 DEF Pending
<1>5. CASE b.password /\ b.grafana # "all"
  BY <1>3, <1>5 DEF Secrets, Pending
<1>6. CASE ~b.password /\ b.grafana = "all"
  BY <1>3, <1>6 DEF Secrets, Pending
<1> QED BY <1>4, <1>5, <1>6

\* Loading adds no reference, under an environment that names no secret.
LEMMA LoadRefers ==
  ASSUME ShapeInv, NoSecretsInstalled, NEW k, Refers(Load, k)
  PROVE  Refers(Parse(file, Default), k)
<1>1. \A f \in DOMAIN env \cap {"passwordKey", "authKey"} : ~env[f]
  BY DEF ShapeInv, NoSecretsInstalled
<1>2. /\ Load.passwordKey = Override("passwordKey", Parse(file, Default).passwordKey)
      /\ Load.authKey = Override("authKey", Parse(file, Default).authKey)
  BY DEF Load, ApplyEnv
<1> QED BY <1>1, <1>2 DEF Refers, Override

\* What a handler's draft refers to the file referred to, or the handler stores.
LEMMA EditRefers ==
  ASSUME ShapeInv, NoSecretsInstalled, NEW r \in Reqs, NEW b \in Bodies, NEW k,
         NEW d, d = IF b.kind = "names" THEN MergeNames(Load, r, b) ELSE ApplyForm(Load, r, b),
         Refers(d, k), ~Pending(Secrets(b), k)
  PROVE  Refers(Parse(file, Default), k)
<1>1. Load \in Config
  BY LoadTyped DEF ShapeInv, StoreTypeOK
<1>2. CASE b.kind = "names"
  <2>1. d.passwordKey = Load.passwordKey /\ d.authKey = Load.authKey
    BY <1>1, <1>2 DEF MergeNames, Config
  <2> QED BY <2>1, LoadRefers DEF Refers
<1>3. CASE b.kind # "names"
  <2>1. /\ d.passwordKey = (Load.passwordKey \/ b.password)
        /\ d.authKey = (Load.authKey \/ b.grafana = "all")
    BY <1>1, <1>3 DEF ApplyForm, Config
  <2>2. Refers(Load, k)
    BY <1>3, <2>1, SecretsPending DEF Refers
  <2> QED BY <2>2, LoadRefers
<1> QED BY <1>2, <1>3

\* A step after which nothing more is wanted.
NoMore == \A k \in Keys : Wanted(k)' => Wanted(k)

\* No step but the end of a store makes another secret wanted.
LEMMA StepsWantNoMore ==
  ASSUME ShapeInv, LockInv, NoSecretsInstalled, [StoreNext]_storeVars,
         \A r \in Reqs : ~PersistSecret(r)
  PROVE  NoMore
<1> USE DEF NoMore, startVars, reqVars, cliVars, histVars
<1>0. \A k : ~Refers(Default, k)
  BY DEF Refers, Default
<1>1. CASE Start
  <2>1. configured' => Refers(Parse(file, Default), "grafana_auth")
    <3>1. configured' => Refers(Load, "grafana_auth")
      BY <1>1 DEF Start, Refers
    <3> QED BY <3>1, LoadRefers
  <2> QED BY <1>1, <2>1 DEF Start, Wanted
<1>2. CASE PassProbe \/ TakeToken \/ KeepToken
  <2>1. UNCHANGED <<file, pc, draft, todo, configured>> /\ Alive
    BY <1>2 DEF PassProbe, TakeToken, KeepToken, Alive
  <2> QED BY <2>1 DEF Wanted
<1>3. CASE Kill
  <2>1. /\ UNCHANGED <<file, draft, todo, configured>> /\ ~Alive'
        /\ \A r \in Reqs : pc'[r] \in {"idle", "done"}
    BY <1>3 DEF Kill, Alive
  <2> QED BY <2>1 DEF Wanted, Editing
<1>4. ASSUME NEW r \in Reqs, NEW b \in Bodies, Submit(r, b)
      PROVE  NoMore
  <2>1. UNCHANGED <<file, configured, main>>
    BY <1>4 DEF Submit
  <2>2. CASE ~Loads
    <3>1. UNCHANGED <<draft, todo>> /\ \A q \in Reqs : pc'[q] \in Editing => pc'[q] = pc[q]
      BY <1>4, <2>2 DEF Submit, Editing, ShapeInv, StoreTypeOK
    <3> QED BY <2>1, <3>1 DEF Wanted, Alive
  <2>3. CASE Loads
    <3> DEFINE d == IF b.kind = "names" THEN MergeNames(Load, r, b) ELSE ApplyForm(Load, r, b)
    <3>1. \A k : Refers(d, k) /\ ~Pending(Secrets(b), k) => Refers(Parse(file, Default), k)
      BY EditRefers
    <3>2. draft' = [draft EXCEPT ![r] = d]
      BY <1>4, <2>3 DEF Submit
    <3> HIDE DEF d
    <3>3. todo' = [todo EXCEPT ![r] = Secrets(b)] /\ \A q \in Reqs : q # r => pc'[q] = pc[q]
      BY <1>4, <2>3 DEF Submit, ShapeInv, StoreTypeOK
    <3>4. /\ draft'[r] = d /\ todo'[r] = Secrets(b)
          /\ \A q \in Reqs : q # r => draft'[q] = draft[q] /\ todo'[q] = todo[q]
      BY <3>2, <3>3 DEF ShapeInv, StoreTypeOK
    <3> QED BY <2>1, <3>1, <3>3, <3>4 DEF Wanted, Alive
  <2> QED BY <2>2, <2>3
<1>5. ASSUME NEW r \in Reqs, StoreSecret(r) \/ FailSecret(r)
      PROVE  NoMore
  <2>1. /\ UNCHANGED <<file, draft, todo, configured, main>>
        /\ \A q \in Reqs : pc'[q] \in Editing => pc[q] \in Editing
    BY <1>5 DEF StoreSecret, FailSecret, Editing, ShapeInv, StoreTypeOK
  <2> QED BY <2>1 DEF Wanted, Alive
<1>6. ASSUME NEW r \in Reqs, Save(r)
      PROVE  NoMore
  <2>1. /\ UNCHANGED <<draft, todo, configured, main>>
        /\ \A q \in Reqs : pc'[q] \in Editing => pc[q] \in Editing
    BY <1>6 DEF Save, Editing, ShapeInv, StoreTypeOK
  <2>2. Parse(file', Default) = Parse(file, Default) \/ Parse(file', Default) = Default
    BY <1>6 DEF Save, Parse, Emptied
  <2> QED BY <1>0, <2>1, <2>2 DEF Wanted, Alive
<1>7. ASSUME NEW r \in Reqs, WriteConfig(r)
      PROVE  NoMore
  <2>1. /\ UNCHANGED <<draft, todo, configured, main>>
        /\ \A q \in Reqs : pc'[q] \in Editing => pc[q] \in Editing
    BY <1>7 DEF WriteConfig, Editing, ShapeInv, StoreTypeOK
  <2>2. Parse(file', Default) \in {Parse(file, Default), Default, draft[r]}
    BY <1>7 DEF WriteConfig, Parse, Written, Whole
  <2>3. pc[r] \in Editing /\ \A k : ~Pending(todo[r], k)
    BY <1>7 DEF WriteConfig, Editing, LockInv, Pending
  <2> QED BY <1>0, <2>1, <2>2, <2>3 DEF Wanted, Alive
<1>8. ASSUME \/ \E k \in CliKeys : CliOpen(k)
             \/ CliTruncate \/ CliWrite \/ UNCHANGED storeVars
      PROVE  NoMore
  <2>1. UNCHANGED <<file, pc, draft, todo, configured, main>>
    BY <1>8 DEF CliOpen, CliTruncate, CliWrite, storeVars
  <2> QED BY <2>1 DEF Wanted, Alive
<1>9. CASE ConfigInit
  <2>1. UNCHANGED <<pc, draft, todo, configured, main>> /\ Parse(file', Default) \in {Parse(file, Default), Default}
    BY <1>9 DEF ConfigInit, CheckAbsent, EmptyForDefault, WriteDefault, AbandonDefault, Emptied, Written, Whole, Parse
  <2> QED BY <1>0, <2>1 DEF Wanted, Alive
<1> QED
  BY <1>1, <1>2, <1>3, <1>4, <1>5, <1>6, <1>7, <1>8, <1>9 DEF StoreNext, RequestStep

\* The end of a store makes the stored secret wanted and no other.
LEMMA PersistWants ==
  ASSUME ShapeInv, LockInv, NEW r \in Reqs, PersistSecret(r), NEW k \in Keys, Wanted(k)'
  PROVE  Wanted(k) \/ k = Head(todo[r])
<1>1. /\ UNCHANGED <<file, draft, main>>
      /\ configured' => configured \/ Head(todo[r]) = "grafana_auth"
      /\ \A q \in Reqs : q # r => pc'[q] = pc[q] /\ todo'[q] = todo[q]
      /\ todo'[r] = Tail(todo[r]) /\ pc[r] \in Editing
  BY DEF PersistSecret, startVars, ShapeInv, StoreTypeOK, Editing
<1>2. ~Pending(todo'[r], k) => k = Head(todo[r]) \/ ~Pending(todo[r], k)
  BY <1>1, PendingTail DEF PersistSecret, ShapeInv
<1> QED BY <1>1, <1>2 DEF Wanted, Alive

\* Every step keeps the wanted secrets in every copy of the vault.
LEMMA SecretStep ==
  ASSUME ShapeInv, LockInv, SecretInv, NoSecretsInstalled, [StoreNext]_storeVars
  PROVE  SecretInv'
<1> USE DEF startVars, reqVars, cliVars, histVars
<1>1. ASSUME NEW r \in Reqs, PersistSecret(r)
      PROVE  SecretInv'
  <2> SUFFICES ASSUME ~vaultHurt' PROVE Keeps(vault)' /\ Keeps(OpenVault)' /\ ~CliBusy'
    BY DEF SecretInv
  <2>1. ~vaultHurt /\ ~CliBusy /\ UNCHANGED <<cli, vault, main>> /\ VaultHeld /\ main = "up"
    BY <1>1 DEF PersistSecret, EndStore, VaultHeld, LockInv
  <2>2. OpenVault' = vault
    BY <1>1, <2>1, CleanWrite DEF PersistSecret, EndStore, LockInv
  <2>3. \A k \in Keys : Wanted(k)' => vault[k] # "none"
    BY <1>1, <2>1, PersistWants DEF PersistSecret, LockInv, SecretInv, Keeps, Alive
  <2> QED BY <2>1, <2>2, <2>3 DEF Keeps, CliBusy
<1>0. SUFFICES ASSUME NoMore PROVE SecretInv'
  BY <1>1, StepsWantNoMore
<1> USE <1>0
<1>2. CASE Start
  <2>2. ~VaultHeld /\ ~VaultHeld' /\ UNCHANGED <<vaultFile, cli, cliVault>>
    BY <1>2 DEF Start, LockInv, VaultHeld
  <2>3. /\ (vaultHurt \/ cli = "write" => vaultHurt')
        /\ Alive' => vault' = OpenVault
    BY <1>2 DEF Start, Alive
  <2> QED BY <2>2, <2>3 DEF SecretInv, Keeps, NoMore, OpenVault, CliBusy
<1>3. CASE TakeToken
  <2>1. Alive
    BY <1>3 DEF TakeToken, Alive
  <2>2. UNCHANGED <<vaultHurt, cli, cliVault, pc>> /\ ~VaultHeld
    BY <1>3 DEF TakeToken, VaultHeld, LockInv
  <2>3. \/ UNCHANGED <<vault, vaultFile>> /\ ~VaultHeld'
        \/ VaultHeld' /\ \A k \in Keys : vault'[k] = vault[k] \/ vault'[k] # "none"
    BY <1>3, <2>2, Vocabulary DEF TakeToken, BeginStore, VaultHeld, ShapeInv, StoreTypeOK
  <2> QED BY <2>1, <2>2, <2>3 DEF SecretInv, Keeps, NoMore, OpenVault, CliBusy
<1>4. CASE KeepToken
  <2>1. Alive /\ VaultHeld /\ UNCHANGED <<vault, cli, cliVault>>
    BY <1>4 DEF KeepToken, Alive, VaultHeld
  <2>2. ~vaultHurt' => ~vaultHurt /\ ~CliBusy /\ vaultFile' \in Written(vaultFile, vault, EmptyVault)
    BY <1>4 DEF KeepToken, EndStore
  <2>3. ~vaultHurt' => OpenVault' = vault
    BY <2>1, <2>2, CleanWrite DEF LockInv
  <2> QED BY <2>1, <2>2, <2>3 DEF SecretInv, Keeps, NoMore, CliBusy
<1>5. CASE Kill
  <2>2. /\ ~Alive' /\ ~VaultHeld' /\ UNCHANGED <<vaultFile, cli, cliVault>>
        /\ vaultHurt \/ VaultHeld => vaultHurt'
    BY <1>5 DEF Kill, Alive, VaultHeld
  <2> QED BY <2>2 DEF SecretInv, Keeps, NoMore, OpenVault, CliBusy
<1>6. ASSUME NEW r \in Reqs, StoreSecret(r)
      PROVE  SecretInv'
  <2>2. VaultHeld' /\ UNCHANGED <<vaultHurt, main>>
    BY <1>6 DEF StoreSecret, VaultHeld, ShapeInv, StoreTypeOK
  <2>3. \A k \in Keys : vault'[k] = vault[k] \/ vault'[k] # "none"
    BY <1>6, ConfigAssumption DEF StoreSecret, BeginStore, ShapeInv, StoreTypeOK
  <2> QED BY <2>2, <2>3 DEF SecretInv, Keeps, NoMore, Alive
<1>7. ASSUME NEW k \in CliKeys, CliOpen(k)
      PROVE  SecretInv'
  <2>1. UNCHANGED <<vault, vaultFile, main, pc>> /\ cli = "idle" /\ cli' = "read"
    BY <1>7 DEF CliOpen, ShapeInv, StoreTypeOK
  <2>2. vaultHurt \/ VaultHeld => vaultHurt'
    BY <1>7 DEF CliOpen
  <2>3. \A j \in Keys : cliVault'[j] = OpenVault[j] \/ cliVault'[j] # "none"
    BY <1>7, OpenVaultTyped DEF CliOpen, ShapeInv
  <2> QED BY <2>1, <2>2, <2>3 DEF SecretInv, Keeps, NoMore, OpenVault, CliBusy, Alive, VaultHeld
<1>8. CASE CliTruncate
  <2>1. UNCHANGED <<vault, cliVault, main, pc>> /\ cli = "read" /\ cli' = "write"
    BY <1>8 DEF CliTruncate, ShapeInv, StoreTypeOK
  <2>2. vaultHurt \/ VaultHeld => vaultHurt'
    BY <1>8 DEF CliTruncate
  <2> QED BY <2>1, <2>2 DEF SecretInv, Keeps, NoMore, CliBusy, Alive, VaultHeld
<1>9. CASE CliWrite
  <2>1. UNCHANGED <<vault, cliVault, main, pc>> /\ cli = "write" /\ cli' = "done"
    BY <1>9 DEF CliWrite, ShapeInv, StoreTypeOK
  <2>2. vaultHurt \/ VaultHeld => vaultHurt'
    BY <1>9 DEF CliWrite
  <2>3. ~vaultHurt' => OpenVault' = cliVault
    BY <1>9, <2>1, <2>2, CleanWrite DEF CliWrite, LockInv
  <2> QED BY <2>1, <2>2, <2>3 DEF SecretInv, Keeps, NoMore, CliBusy, Alive
<1>10. ASSUME UNCHANGED <<vault, vaultFile, cli, cliVault>>, NoMore,
              Alive' => Alive, VaultHeld => VaultHeld' \/ vaultHurt', vaultHurt => vaultHurt'
       PROVE  SecretInv'
  BY <1>10 DEF SecretInv, Keeps, NoMore, OpenVault, CliBusy
<1>11. CASE PassProbe \/ ConfigInit \/ UNCHANGED storeVars
  <2> QED BY <1>10, <1>11 DEF PassProbe, ConfigInit, CheckAbsent, EmptyForDefault, WriteDefault, AbandonDefault, storeVars, Alive, VaultHeld
<1>12. ASSUME NEW r \in Reqs, NEW b \in Bodies, Submit(r, b)
       PROVE  SecretInv'
  <2>1. /\ UNCHANGED <<vault, vaultFile, cli, cliVault, main, vaultHurt>>
        /\ \A q \in Reqs : pc[q] # "idle" => pc'[q] = pc[q]
    BY <1>12 DEF Submit, ShapeInv, StoreTypeOK
  <2> QED BY <1>10, <2>1 DEF Alive, VaultHeld
<1>13. ASSUME NEW r \in Reqs, FailSecret(r) \/ Save(r) \/ WriteConfig(r)
       PROVE  SecretInv'
  <2>1. /\ UNCHANGED <<vault, vaultFile, cli, cliVault, main>>
        /\ \A q \in Reqs : q # r => pc'[q] = pc[q]
        /\ pc'[r] \in {"write", "done"}
        /\ vaultHurt' \/ (vaultHurt' = vaultHurt /\ pc[r] # "persist")
    BY <1>13 DEF FailSecret, Save, WriteConfig, ShapeInv, StoreTypeOK
  <2> QED BY <1>10, <2>1 DEF Alive, VaultHeld
<1> QED
  BY <1>1, <1>2, <1>3, <1>4, <1>5, <1>6, <1>7, <1>8, <1>9, <1>11, <1>12, <1>13
  DEF StoreNext, RequestStep

\* What config.toml refers to is in vault.json, and the settings page reports
\* credentials only when they are there, whatever requests, starts, kills, failed
\* writes and commands interleave, unless the vault file itself was damaged.
THEOREM SecretsStored == ASSUME NoSecretsInstalled PROVE StoreSpec => []ReferencedSecretsStored
<1>1. StoreInit => SecretInv
  <2> SUFFICES ASSUME StoreInit PROVE \A k \in Keys : ~Wanted(k)
    BY DEF SecretInv, Keeps
  <2>1. Parse(file, Default) \in Files \cup {Default}
    BY DEF StoreInit, Parse, Whole
  <2>2. \A k \in Keys : ~Refers(Parse(file, Default), k)
    BY <2>1 DEF NoSecretsInstalled, Refers, Default
  <2> QED BY <2>2 DEF StoreInit, Wanted, Editing
<1>2. ShapeInv /\ LockInv /\ SecretInv /\ [StoreNext]_storeVars => SecretInv'
  BY SecretStep
<1>3. SecretInv => ReferencedSecretsStored
  <2> SUFFICES ASSUME SecretInv, ~vaultHurt, ~VaultHeld, cli # "write"
               PROVE  /\ Parse(file, Default).passwordKey => OpenVault["obs_password"] # "none"
                      /\ Parse(file, Default).authKey \/ (configured /\ main = "up") =>
                           OpenVault["grafana_auth"] # "none"
    BY DEF ReferencedSecretsStored
  <2>1. /\ Parse(file, Default).passwordKey => Wanted("obs_password")
        /\ Parse(file, Default).authKey \/ (configured /\ main = "up") => Wanted("grafana_auth")
    BY DEF Wanted, Refers, Alive
  <2>2. \A k \in {"obs_password", "grafana_auth"} : Wanted(k) => OpenVault[k] # "none"
    BY Vocabulary DEF SecretInv, Keeps
  <2> QED BY <2>1, <2>2
<1> QED BY <1>1, <1>2, <1>3, ShapeInvariant, LockInvariant, PTL DEF StoreSpec

\* Whether a token is configured: the environment's word, else the file's.
LEMMA LoadToken == Load.token = Override("token", Parse(file, Default).token)
BY DEF Load, ApplyEnv

\* Once no token is configured no save brings one back: drafts start from a load.
LEMMA NoTokenComesBack ==
  ASSUME ShapeInv, LockInv, TokenInv, [StoreNext]_storeVars, token # "none", UNCHANGED token
  PROVE  /\ ~Load.token'
         /\ \A r \in Reqs : pc'[r] \in Editing => ~Override("token", draft[r].token)'
<1> USE DEF startVars, reqVars, cliVars, histVars, ShapeInv, StoreTypeOK
<1>0. /\ ~Override("token", Parse(file, Default).token)
      /\ \A r \in Reqs : pc[r] \in Editing => ~Override("token", draft[r].token)
      /\ ~Override("token", Default.token)
  BY LoadToken DEF TokenInv, Override, Default
<1>2. UNCHANGED env
  BY DEF StoreNext, Start, PassProbe, TakeToken, KeepToken, Submit, RequestStep, StoreSecret,
         PersistSecret, FailSecret, Save, WriteConfig, CliOpen, CliTruncate, CliWrite,
         ConfigInit, CheckAbsent, EmptyForDefault, WriteDefault, AbandonDefault, Kill, storeVars
<1>3. \/ Parse(file', Default) \in {Parse(file, Default), Default}
      \/ \E r \in Reqs : pc[r] \in Editing /\ Parse(file', Default) = draft[r]
  <2>1. CASE UNCHANGED file
    BY <2>1
  <2>2. ASSUME NEW r \in Reqs, Save(r), file' # file
        PROVE  Parse(file', Default) = Default
    BY <2>2 DEF Save, Parse, Emptied
  <2>3. ASSUME NEW r \in Reqs, WriteConfig(r), file' # file
        PROVE  pc[r] \in Editing /\ Parse(file', Default) \in {draft[r], Default}
    BY <2>3 DEF WriteConfig, Written, Whole, Parse, Editing
  <2>4. CASE ConfigInit
    BY <2>4 DEF ConfigInit, CheckAbsent, EmptyForDefault, WriteDefault, AbandonDefault, Emptied, Written, Whole, Parse
  <2>5. \/ UNCHANGED file
        \/ ConfigInit
        \/ \E r \in Reqs : Save(r) \/ WriteConfig(r)
    BY DEF StoreNext, Start, PassProbe, TakeToken, KeepToken, Submit, RequestStep, StoreSecret,
           PersistSecret, FailSecret, CliOpen, CliTruncate, CliWrite, Kill, storeVars
  <2> QED BY <2>1, <2>2, <2>3, <2>4, <2>5
<1>4. ~Load.token'
  <2>1. ~Override("token", Parse(file', Default).token)
    BY <1>0, <1>3
  <2> QED BY <1>2, <2>1, LoadToken DEF Load, ApplyEnv, Override
<1>5. ASSUME NEW r \in Reqs, NEW b \in Bodies, Submit(r, b), NEW q \in Reqs, pc'[q] \in Editing
      PROVE  ~Override("token", draft'[q].token)
  <2>1. CASE q = r
    <3> DEFINE d == IF b.kind = "names" THEN MergeNames(Load, r, b) ELSE ApplyForm(Load, r, b)
    <3>1. Load \in Config /\ ~Load.token
      BY LoadTyped DEF TokenInv
    <3>2. d.token = Load.token
      BY <3>1 DEF MergeNames, ApplyForm, Config
    <3>3. Loads /\ draft'[r] = d
      BY <1>5, <2>1 DEF Submit, Editing
    <3>4. ~Override("token", Load.token)
      BY <3>1, LoadToken DEF Override
    <3> QED BY <2>1, <3>2, <3>3, <3>4
  <2>2. CASE q # r
    BY <1>0, <1>5, <2>2 DEF Submit
  <2> QED BY <2>1, <2>2
<1>6. CASE \A r \in Reqs, b \in Bodies : ~Submit(r, b)
  <2>1. UNCHANGED draft
    BY <1>6
    DEF StoreNext, Start, PassProbe, TakeToken, KeepToken, RequestStep, StoreSecret,
        PersistSecret, FailSecret, Save, WriteConfig, CliOpen, CliTruncate, CliWrite,
        ConfigInit, CheckAbsent, EmptyForDefault, WriteDefault, AbandonDefault, Kill, storeVars
  <2>2. \A r \in Reqs : pc'[r] \in Editing => pc[r] \in Editing
    BY <1>6
    DEF StoreNext, Start, PassProbe, TakeToken, KeepToken, RequestStep, StoreSecret,
        PersistSecret, FailSecret, Save, WriteConfig, CliOpen, CliTruncate, CliWrite,
        ConfigInit, CheckAbsent, EmptyForDefault, WriteDefault, AbandonDefault, Kill, storeVars, Editing
  <2> QED BY <1>0, <1>2, <1>4, <2>1, <2>2 DEF Override
<1> QED BY <1>2, <1>4, <1>5, <1>6 DEF Override

\* Every step keeps them in agreement; only TakeToken changes the token.
LEMMA AgreeStep ==
  ASSUME ShapeInv, LockInv, TokenInv, "server_token" \notin CliKeys, [StoreNext]_storeVars
  PROVE  CopiesAgree' /\ (UNCHANGED token \/ TakeToken)
<1> USE DEF startVars, reqVars, cliVars, histVars, CopiesAgree
<1>0. CopiesAgree
  BY DEF TokenInv
<1>1. CASE Start
  <2>1. ~VaultHeld /\ ~VaultHeld' /\ UNCHANGED <<vaultFile, cli, cliVault, token>>
    BY <1>1 DEF Start, LockInv, VaultHeld
  <2>2. /\ (vaultHurt \/ cli = "write" => vaultHurt')
        /\ Alive' => vault' = OpenVault
    BY <1>1 DEF Start, Alive
  <2> QED BY <1>0, <2>1, <2>2 DEF OpenVault, CliBusy
<1>2. CASE TakeToken
  <2>1. UNCHANGED <<vaultHurt, cli, cliVault, pc>> /\ ~VaultHeld /\ Alive
    BY <1>2 DEF TakeToken, VaultHeld, LockInv, Alive
  <2>2. CASE UNCHANGED <<vault, vaultFile>> /\ main' = "up" /\ token' \in {"none", vault["server_token"]}
    <3>1. Alive' /\ ~VaultHeld'
      BY <2>1, <2>2 DEF Alive, VaultHeld
    <3> QED BY <1>0, <1>2, <2>1, <2>2, <3>1 DEF OpenVault, CliBusy
  <2>3. CASE main' = "persist" /\ token' = Tokens[runs] /\ BeginStore("server_token", Tokens[runs])
    <3>1. VaultHeld' /\ vault'["server_token"] = token'
      BY <2>3, Vocabulary DEF VaultHeld, BeginStore, ShapeInv, StoreTypeOK
    <3> QED BY <1>2, <3>1
  <2> QED BY <1>2, <2>2, <2>3 DEF TakeToken
<1>3. CASE KeepToken
  <2>1. Alive /\ VaultHeld /\ UNCHANGED <<vault, cli, cliVault, token>>
    BY <1>3 DEF KeepToken, Alive, VaultHeld
  <2>2. ~vaultHurt' => ~vaultHurt /\ ~CliBusy /\ vaultFile' \in Written(vaultFile, vault, EmptyVault)
    BY <1>3 DEF KeepToken, EndStore
  <2>3. ~vaultHurt' => OpenVault' = vault
    BY <2>1, <2>2, CleanWrite DEF LockInv
  <2> QED BY <1>0, <2>1, <2>2, <2>3 DEF CliBusy
<1>4. CASE Kill
  <2>1. /\ ~Alive' /\ ~VaultHeld' /\ UNCHANGED <<vaultFile, cli, cliVault, token>>
        /\ vaultHurt \/ VaultHeld => vaultHurt'
    BY <1>4 DEF Kill, Alive, VaultHeld
  <2> QED BY <1>0, <2>1 DEF OpenVault, CliBusy
<1>5. ASSUME NEW r \in Reqs, StoreSecret(r)
      PROVE  CopiesAgree' /\ UNCHANGED token
  <2>1. VaultHeld' /\ UNCHANGED <<vaultHurt, main, token>>
    BY <1>5 DEF StoreSecret, VaultHeld, ShapeInv, StoreTypeOK
  <2>2. Head(todo[r]) # "server_token"
    BY <1>5 DEF StoreSecret, ShapeInv, Todos
  <2>3. vault'["server_token"] = vault["server_token"]
    BY <1>5, <2>2, Vocabulary DEF StoreSecret, BeginStore, ShapeInv, StoreTypeOK
  <2> QED BY <1>0, <2>1, <2>3 DEF Alive
<1>6. ASSUME NEW r \in Reqs, PersistSecret(r)
      PROVE  CopiesAgree' /\ UNCHANGED token
  <2>1. UNCHANGED <<cli, vault, main, token, cliVault>> /\ VaultHeld /\ main = "up"
    BY <1>6 DEF PersistSecret, VaultHeld, LockInv
  <2>2. ~vaultHurt' => ~vaultHurt /\ ~CliBusy /\ vaultFile' \in Written(vaultFile, vault, EmptyVault)
    BY <1>6 DEF PersistSecret, EndStore
  <2>3. ~vaultHurt' => OpenVault' = vault
    BY <2>1, <2>2, CleanWrite DEF LockInv
  <2> QED BY <1>0, <2>1, <2>2, <2>3 DEF CliBusy, Alive
<1>7. ASSUME NEW k \in CliKeys, CliOpen(k)
      PROVE  CopiesAgree' /\ UNCHANGED token
  <2>1. UNCHANGED <<vault, vaultFile, main, pc, token>> /\ cli = "idle" /\ cli' = "read"
    BY <1>7 DEF CliOpen
  <2>2. vaultHurt \/ VaultHeld => vaultHurt'
    BY <1>7 DEF CliOpen
  <2>3. cliVault'["server_token"] = OpenVault["server_token"]
    BY <1>7, OpenVaultTyped, Vocabulary DEF CliOpen, ShapeInv
  <2> QED BY <1>0, <2>1, <2>2, <2>3 DEF OpenVault, CliBusy, Alive, VaultHeld
<1>8. CASE CliTruncate
  <2>1. UNCHANGED <<vault, cliVault, main, pc, token>> /\ cli = "read" /\ cli' = "write"
    BY <1>8 DEF CliTruncate
  <2>2. vaultHurt \/ VaultHeld => vaultHurt'
    BY <1>8 DEF CliTruncate
  <2> QED BY <1>0, <2>1, <2>2 DEF CliBusy, Alive, VaultHeld
<1>9. CASE CliWrite
  <2>1. UNCHANGED <<vault, cliVault, main, pc, token>> /\ cli = "write" /\ cli' = "done"
    BY <1>9 DEF CliWrite
  <2>2. vaultHurt \/ VaultHeld => vaultHurt'
    BY <1>9 DEF CliWrite
  <2>3. ~vaultHurt' => OpenVault' = cliVault
    BY <1>9, <2>1, <2>2, CleanWrite DEF CliWrite, LockInv
  <2> QED BY <1>0, <2>1, <2>2, <2>3 DEF CliBusy, Alive
<1>10. ASSUME UNCHANGED <<vault, vaultFile, cli, cliVault, token>>,
              Alive' => Alive, VaultHeld => VaultHeld' \/ vaultHurt', vaultHurt => vaultHurt'
       PROVE  CopiesAgree' /\ UNCHANGED token
  BY <1>0, <1>10 DEF OpenVault, CliBusy
<1>11. CASE PassProbe \/ ConfigInit \/ UNCHANGED storeVars
  BY <1>10, <1>11 DEF PassProbe, ConfigInit, CheckAbsent, EmptyForDefault, WriteDefault, AbandonDefault, storeVars, Alive, VaultHeld
<1>12. ASSUME NEW r \in Reqs, NEW b \in Bodies, Submit(r, b)
       PROVE  CopiesAgree' /\ UNCHANGED token
  <2>1. /\ UNCHANGED <<vault, vaultFile, cli, cliVault, main, vaultHurt, token>>
        /\ \A q \in Reqs : pc[q] # "idle" => pc'[q] = pc[q]
    BY <1>12 DEF Submit, ShapeInv, StoreTypeOK
  <2> QED BY <1>10, <2>1 DEF Alive, VaultHeld
<1>13. ASSUME NEW r \in Reqs, FailSecret(r) \/ Save(r) \/ WriteConfig(r)
       PROVE  CopiesAgree' /\ UNCHANGED token
  <2>1. /\ UNCHANGED <<vault, vaultFile, cli, cliVault, main, token>>
        /\ \A q \in Reqs : q # r => pc'[q] = pc[q]
        /\ vaultHurt' \/ (vaultHurt' = vaultHurt /\ pc[r] # "persist")
    BY <1>13 DEF FailSecret, Save, WriteConfig, ShapeInv, StoreTypeOK
  <2> QED BY <1>10, <2>1 DEF Alive, VaultHeld
<1> QED
  BY <1>1, <1>2, <1>3, <1>4, <1>5, <1>6, <1>7, <1>8, <1>9, <1>11, <1>12, <1>13
  DEF StoreNext, RequestStep

\* The dashboard's address survives a restart: once a start has made or taken a
\* token, every later start takes the same one, whatever requests, commands for
\* other keys, kills and failed writes happened, unless vault.json was damaged.
THEOREM TokenKept == ASSUME "server_token" \notin CliKeys PROVE StoreSpec => TokenStable
<1>1. StoreInit => TokenInv
  BY DEF StoreInit, TokenInv, CopiesAgree, Alive, VaultHeld, CliBusy
<1>2. ASSUME ShapeInv, LockInv, TokenInv, [StoreNext]_storeVars
      PROVE  TokenInv'
  <2>1. CopiesAgree' /\ (UNCHANGED token \/ TakeToken)
    BY <1>2, AgreeStep
  <2>2. ASSUME UNCHANGED token, token' # "none"
        PROVE  ~Load.token' /\ \A r \in Reqs : pc'[r] \in Editing => ~Override("token", draft[r].token)'
    BY <1>2, <2>2, NoTokenComesBack
  <2>3. ASSUME TakeToken, token' # "none"
        PROVE  ~Load.token' /\ \A r \in Reqs : pc'[r] \in Editing => ~Override("token", draft[r].token)'
    <3>1. UNCHANGED <<env, file, pc>> /\ main = "token" /\ ~Load.token
      BY <2>3 DEF TakeToken, reqVars
    <3>2. ~Load.token'
      BY <3>1 DEF Load, ApplyEnv, Parse, Override
    <3>3. \A r \in Reqs : pc'[r] \notin Editing
      BY <1>2, <3>1 DEF LockInv, Editing
    <3> QED BY <3>2, <3>3
  <2> QED BY <2>1, <2>2, <2>3 DEF TokenInv
<1>3. ASSUME ShapeInv, LockInv, TokenInv, [StoreNext]_storeVars
      PROVE  [main = "token" /\ main' \in {"up", "persist"} /\ token # "none" /\ ~vaultHurt => token' = token]_storeVars
  <2> SUFFICES ASSUME main = "token", main' \in {"up", "persist"}, token # "none", ~vaultHurt,
                      storeVars' # storeVars
               PROVE  token' = token
    OBVIOUS
  <2>1. CASE TakeToken
    <3>1. vault["server_token"] = token /\ ~Load.token
      BY <1>3 DEF TokenInv, CopiesAgree, Alive
    <3> QED BY <2>1, <3>1 DEF TakeToken
  <2>2. CASE UNCHANGED token
    BY <2>2
  <2> QED BY <1>3, <2>1, <2>2, AgreeStep
<1> QED BY <1>1, <1>2, <1>3, ShapeInvariant, LockInvariant, PTL DEF StoreSpec, TokenStable

-----------------------------------------------------------------------------
\* Acknowledged settings.

\* The environment sets no host: an override is part of every draft, and a save
\* writes it to the file.
HostNotOverridden == \A e \in Envs : "host" \notin DOMAIN e

\* What a request's draft makes of the name of an output and of the host.
DraftName(r, o) ==
  IF body[r].kind # "names" THEN NameHeld(o)
  ELSE IF o \in body[r].blank THEN "none" ELSE IF o \in body[r].set THEN r ELSE NameHeld(o)
DraftHost(r) == IF body[r].kind = "names" THEN HostHeld ELSE r

\* A set of positions is empty or has a last one.
HasLast(I) == I = {} \/ \E i \in I : \A j \in I : j <= i

\* Unless a write was cut short or made from an outdated load or check, the file has what
\* was acknowledged, a clean draft adds its own request to that, and a request
\* that writes is the only clean one and finds the file empty.
AckedInv ==
  /\ installed \in Config
  /\ body \in [Reqs -> Bodies \cup {NoBody}]
  /\ \A r \in Reqs : pc[r] # "idle" => body[r] \in Bodies
  /\ \A i \in DOMAIN acked : pc[acked[i]] = "done"
  /\ HasLast(Hosting) /\ \A o \in Outputs : HasLast(Naming(o))
  /\ \A r \in clean : pc[r] \in Editing
  /\ ~hurt =>
       /\ AckedSettingsHold
       /\ \A r \in clean : /\ \A o \in Outputs : draft[r].names[o] = DraftName(r, o)
                           /\ draft[r].host = DraftHost(r)
       /\ \A r \in Reqs : pc[r] = "write" => clean = {r} /\ file.at = "empty"

\* The last of a set of positions that has one.
LEMMA LastIs ==
  ASSUME NEW I, I \subseteq Nat, NEW i \in I, \A j \in I : j <= i
  PROVE  LastOf(acked, I) = acked[i]
<1> DEFINE m == CHOOSE n \in I : \A j \in I : j <= n
<1>1. m \in I /\ \A j \in I : j <= m
  BY Zenon
<1> HIDE DEF m
<1>2. m = i
  <2>1. m <= i /\ i <= m /\ m \in Nat /\ i \in Nat
    BY <1>1
  <2> QED BY <2>1
<1> QED BY <1>2 DEF LastOf, m

\* It is one of the set.
LEMMA LastAmong ==
  ASSUME NEW I, I \subseteq Nat, HasLast(I), I # {}
  PROVE  \E i \in I : LastOf(acked, I) = acked[i] /\ \A j \in I : j <= i
BY LastIs DEF HasLast

\* What was acknowledged depends on the acknowledged requests only.
LEMMA HeldSame ==
  ASSUME ShapeInv, AckedInv, UNCHANGED <<acked, installed>>,
         \A i \in DOMAIN acked : body'[acked[i]] = body[acked[i]]
  PROVE  /\ Hosting' = Hosting /\ HostHeld' = HostHeld
         /\ \A o \in Outputs : Naming(o)' = Naming(o) /\ NameHeld(o)' = NameHeld(o)
<1>1. Hosting' = Hosting /\ HostHeld' = HostHeld
  <2>1. Hosting' = Hosting
    BY DEF Hosting
  <2> QED BY <2>1 DEF HostHeld
<1>2. ASSUME NEW o \in Outputs
      PROVE  Naming(o)' = Naming(o) /\ NameHeld(o)' = NameHeld(o)
  <2>1. Naming(o)' = Naming(o)
    BY DEF Naming
  <2>2. Naming(o) # {} => \E i \in DOMAIN acked : LastOf(acked, Naming(o)) = acked[i]
    <3>1. DOMAIN acked \subseteq Nat
      BY DEF ShapeInv, StoreTypeOK
    <3>2. Naming(o) \subseteq DOMAIN acked
      BY DEF Naming
    <3>3. HasLast(Naming(o))
      BY DEF AckedInv
    <3> QED BY <3>1, <3>2, <3>3, LastAmong
  <2>3. LastOf(acked, Naming(o))' = LastOf(acked, Naming(o))
    BY <2>1 DEF LastOf
  <2> QED BY <2>1, <2>2, <2>3 DEF NameHeld
<1> QED BY <1>1, <1>2

\* One more acknowledged request leaves what its draft made of the rest.
LEMMA HeldAppend ==
  ASSUME ShapeInv, AckedInv, NEW r \in Reqs, body[r] \in Bodies, acked' = Append(acked, r),
         UNCHANGED <<body, installed>>
  PROVE  /\ HasLast(Hosting)' /\ HostHeld' = DraftHost(r)
         /\ \A o \in Outputs : HasLast(Naming(o))' /\ NameHeld(o)' = DraftName(r, o)
<1> DEFINE n == Len(acked) + 1
<1>1. /\ acked \in Seq(Reqs) /\ acked' \in Seq(Reqs) /\ n \in Nat
      /\ DOMAIN acked' = DOMAIN acked \cup {n} /\ acked'[n] = r
      /\ \A i \in DOMAIN acked : acked'[i] = acked[i] /\ i \in Nat /\ i < n
  BY DEF ShapeInv, StoreTypeOK
<1> HIDE DEF n
<1>2. body[r].kind # "names" <=> body[r].kind = "settings"
  BY ConfigAssumption DEF Forms, Payloads
<1>3. ASSUME NEW I, NEW J, I \subseteq DOMAIN acked, J = I \cup {n}
      PROVE  HasLast(J) /\ LastOf(acked', J) = r
  <2>1. J \subseteq Nat /\ n \in J /\ \A j \in J : j <= n
    BY <1>1, <1>3
  <2>2. (CHOOSE i \in J : \A j \in J : j <= i) = n
    <3> DEFINE m == CHOOSE i \in J : \A j \in J : j <= i
    <3>1. m \in J /\ \A j \in J : j <= m
      BY <2>1, Zenon
    <3> HIDE DEF m
    <3>2. m <= n /\ n <= m /\ m \in Nat /\ n \in Nat
      BY <2>1, <3>1
    <3>3. m = n
      BY <3>2
    <3> QED BY <3>3 DEF m
  <2> QED BY <1>1, <2>1, <2>2 DEF HasLast, LastOf
<1>4. ASSUME NEW I, I \subseteq DOMAIN acked, HasLast(I), I # {}
      PROVE  LastOf(acked', I) = LastOf(acked, I)
  <2>1. PICK i \in I : \A j \in I : j <= i
    BY <1>4 DEF HasLast
  <2>2. I \subseteq Nat
    BY <1>1, <1>4
  <2> DEFINE m == CHOOSE k \in I : \A j \in I : j <= k
  <2>3. m \in I
    BY <2>1, Zenon
  <2>4. LastOf(acked, I) = acked[m] /\ LastOf(acked', I) = acked'[m]
    BY DEF LastOf
  <2> QED BY <1>1, <1>4, <2>3, <2>4
<1>5. HasLast(Hosting)' /\ HostHeld' = DraftHost(r)
  <2>1. CASE body[r].kind = "settings"
    <3>1. Hosting' = Hosting \cup {n} /\ Hosting \subseteq DOMAIN acked
      BY <1>1, <2>1 DEF Hosting
    <3>2. HasLast(Hosting') /\ LastOf(acked', Hosting') = r
      BY <1>3, <3>1
    <3>3. Hosting' # {}
      BY <3>1
    <3> QED BY <1>2, <2>1, <3>2, <3>3 DEF HostHeld, DraftHost, HasLast
  <2>2. CASE body[r].kind # "settings"
    <3>1. Hosting' = Hosting /\ Hosting \subseteq DOMAIN acked
      BY <1>1, <2>2 DEF Hosting
    <3>2. Hosting # {} => LastOf(acked', Hosting) = LastOf(acked, Hosting)
      BY <1>4, <3>1 DEF AckedInv
    <3> QED BY <1>2, <2>2, <3>1, <3>2 DEF HostHeld, DraftHost, HasLast, AckedInv
  <2> QED BY <2>1, <2>2
<1>6. ASSUME NEW o \in Outputs
      PROVE  HasLast(Naming(o))' /\ NameHeld(o)' = DraftName(r, o)
  <2>1. CASE body[r].kind = "names" /\ o \in body[r].set \cup body[r].blank
    <3>1. Naming(o)' = Naming(o) \cup {n} /\ Naming(o) \subseteq DOMAIN acked
      BY <1>1, <2>1 DEF Naming
    <3>2. HasLast(Naming(o)') /\ LastOf(acked', Naming(o)') = r
      BY <1>3, <3>1
    <3>3. Naming(o)' # {}
      BY <3>1
    <3> QED BY <2>1, <3>2, <3>3 DEF NameHeld, DraftName, HasLast
  <2>2. CASE ~(body[r].kind = "names" /\ o \in body[r].set \cup body[r].blank)
    <3>1. Naming(o)' = Naming(o) /\ Naming(o) \subseteq DOMAIN acked
      BY <1>1, <2>2 DEF Naming
    <3>2. Naming(o) # {} => LastOf(acked', Naming(o)) = LastOf(acked, Naming(o))
      BY <1>4, <3>1 DEF AckedInv
    <3> QED BY <2>2, <3>1, <3>2 DEF NameHeld, DraftName, HasLast, AckedInv
  <2> QED BY <2>1, <2>2
<1> QED BY <1>5, <1>6

\* A step that leaves the file, the drafts and the history of saves alone.
LEMMA AckedQuiet ==
  ASSUME ShapeInv, AckedInv, UNCHANGED <<acked, installed, draft, hurt>>,
         Parse(file', Default) = Parse(file, Default), Writing /\ file.at = "empty" => file'.at = "empty",
         body' \in [Reqs -> Bodies \cup {NoBody}],
         \A r \in Reqs : pc[r] # "idle" => body'[r] = body[r],
         \A r \in Reqs : pc'[r] # "idle" => body'[r] \in Bodies,
         \A r \in Reqs : pc[r] = "done" => pc'[r] = "done",
         \A r \in Reqs : pc'[r] = "write" <=> pc[r] = "write",
         clean' \subseteq clean,
         \A r \in clean' : pc'[r] \in Editing,
         \A r \in clean : pc[r] = "write" => r \in clean'
  PROVE  AckedInv'
<1>0. clean \subseteq Reqs /\ \A i \in DOMAIN acked : acked[i] \in Reqs
  BY DEF ShapeInv, StoreTypeOK
<1>1. /\ Hosting' = Hosting /\ HostHeld' = HostHeld
      /\ \A o \in Outputs : Naming(o)' = Naming(o) /\ NameHeld(o)' = NameHeld(o)
  BY <1>0, HeldSame DEF AckedInv
<1>2. /\ installed' \in Config
      /\ HasLast(Hosting)' /\ \A o \in Outputs : HasLast(Naming(o))'
      /\ \A i \in DOMAIN acked' : pc'[acked'[i]] = "done"
  BY <1>0, <1>1 DEF AckedInv, HasLast
<1>3. ASSUME ~hurt'
      PROVE  AckedSettingsHold'
  BY <1>1, <1>3 DEF AckedInv, AckedSettingsHold, Writing
<1>4. ASSUME ~hurt', NEW r \in clean'
      PROVE  (\A o \in Outputs : draft'[r].names[o] = DraftName(r, o)') /\ draft'[r].host = DraftHost(r)'
  <2>1. r \in clean /\ body'[r] = body[r]
    BY <1>0 DEF AckedInv, Editing
  <2> QED BY <1>1, <1>4, <2>1 DEF AckedInv, DraftName, DraftHost
<1>5. ASSUME ~hurt', NEW r \in Reqs, pc'[r] = "write"
      PROVE  clean' = {r} /\ file'.at = "empty"
  BY <1>5 DEF AckedInv, Writing
<1> QED BY <1>2, <1>3, <1>4, <1>5 DEF AckedInv

\* Every step keeps what was acknowledged.
LEMMA AckedStep ==
  ASSUME ShapeInv, LockInv, AckedInv, HostNotOverridden, [StoreNext]_storeVars
  PROVE  AckedInv'
<1> USE DEF startVars, reqVars, cliVars, histVars
<1>0. /\ clean \subseteq Reqs /\ pc \in [Reqs -> {"idle", "store", "persist", "save", "write", "done"}]
      /\ draft \in [Reqs -> Config] /\ body \in [Reqs -> Bodies \cup {NoBody}]
      /\ \A r \in clean : pc[r] \in Editing
      /\ \A r \in Reqs : pc[r] # "idle" => body[r] \in Bodies
      /\ \A i \in DOMAIN acked : acked[i] \in Reqs /\ pc[acked[i]] = "done"
  BY DEF ShapeInv, StoreTypeOK, AckedInv
<1>1. CASE \/ Start \/ PassProbe \/ TakeToken \/ KeepToken \/ CliTruncate \/ CliWrite
           \/ (\E k \in CliKeys : CliOpen(k)) \/ UNCHANGED storeVars
  <2>1. UNCHANGED <<acked, installed, draft, hurt, file, body, pc, clean>>
    BY <1>1
    DEF Start, PassProbe, TakeToken, KeepToken, CliTruncate, CliWrite, CliOpen, storeVars
  <2> QED BY <1>0, <2>1, AckedQuiet
<1>2. CASE ConfigInit
  <2>1. UNCHANGED <<acked, installed, draft, body, pc, clean>>
    BY <1>2 DEF ConfigInit, CheckAbsent, EmptyForDefault, WriteDefault, AbandonDefault
  <2>2. CASE hurt'
    <3>1. /\ Hosting' = Hosting
          /\ \A o \in Outputs : Naming(o)' = Naming(o)
      BY <2>1, HeldSame
    <3> QED BY <1>0, <2>1, <2>2, <3>1 DEF AckedInv, HasLast
  <2>3. CASE ~hurt'
    <3>1. ~hurt
      BY <1>2, <2>3, Zenon DEF ConfigInit, CheckAbsent, EmptyForDefault, WriteDefault, AbandonDefault
    <3>2. hurt \in BOOLEAN /\ hurt' \in BOOLEAN
      <4>1. hurt \in BOOLEAN
        BY DEF ShapeInv, StoreTypeOK
      <4> QED BY <1>2, <4>1, Zenon DEF ConfigInit, CheckAbsent, EmptyForDefault, WriteDefault, AbandonDefault
    <3>3. hurt' = hurt
      BY <2>3, <3>1, <3>2
    <3>4. /\ Parse(file', Default) = Parse(file, Default)
          /\ Writing /\ file.at = "empty" => file'.at = "empty"
      <4>1. CASE CheckAbsent \/ AbandonDefault
        BY <4>1 DEF CheckAbsent, AbandonDefault
      <4>2. CASE EmptyForDefault
        <5>1. file.at = "missing"
          BY <2>3, <4>2, Zenon DEF EmptyForDefault
        <5>2. file' = Emptied(Default)
          BY <4>2 DEF EmptyForDefault
        <5> QED BY <5>1, <5>2 DEF Emptied, Parse
      <4>3. CASE WriteDefault
        <5>1. ~Writing /\ file.at = "empty"
          BY <2>3, <4>3, Zenon DEF WriteDefault
        <5>2. file' \in Written(file, Default, Default)
          BY <4>3 DEF WriteDefault
        <5> QED BY <5>1, <5>2 DEF Written, Whole, Parse
      <4> QED BY <1>2, <4>1, <4>2, <4>3 DEF ConfigInit
    <3> QED BY <1>0, <2>1, <3>3, <3>4, AckedQuiet
  <2> QED BY <2>2, <2>3
<1>3. ASSUME NEW r \in Reqs, StoreSecret(r) \/ PersistSecret(r)
      PROVE  AckedInv'
  <2>1. /\ UNCHANGED <<acked, installed, draft, hurt, file, body, clean>>
        /\ \A q \in Reqs : q # r => pc'[q] = pc[q]
        /\ pc[r] \in {"store", "persist"} /\ pc'[r] \in {"store", "persist", "save"}
    BY <1>0, <1>3 DEF StoreSecret, PersistSecret, After
  <2> QED BY <1>0, <2>1, AckedQuiet DEF Editing
<1>4. ASSUME NEW r \in Reqs, FailSecret(r) \/ (Save(r) /\ ~Validate(draft[r]))
      PROVE  AckedInv'
  <2>1. /\ UNCHANGED <<acked, installed, draft, hurt, file, body>> /\ clean' = clean \ {r}
        /\ \A q \in Reqs : q # r => pc'[q] = pc[q]
        /\ pc[r] \in {"persist", "save"} /\ pc'[r] = "done"
    BY <1>0, <1>4 DEF FailSecret, Save
  <2> QED BY <1>0, <2>1, AckedQuiet
<1>5. CASE Kill
  <2>1. /\ UNCHANGED <<acked, installed, draft, file, body>> /\ clean' = {}
        /\ \A r \in Reqs : pc'[r] = IF pc[r] = "idle" THEN "idle" ELSE "done"
        /\ hurt' = (hurt \/ Writing)
    BY <1>5 DEF Kill
  <2>2. /\ Hosting' = Hosting /\ HostHeld' = HostHeld
        /\ \A o \in Outputs : Naming(o)' = Naming(o) /\ NameHeld(o)' = NameHeld(o)
    BY <2>1, HeldSame
  <2> QED BY <1>0, <2>1, <2>2 DEF AckedInv, AckedSettingsHold, HasLast, Writing
<1>6. ASSUME NEW r \in Reqs, NEW b \in Bodies, Submit(r, b), ~Loads
      PROVE  AckedInv'
  <2>1. /\ UNCHANGED <<acked, installed, draft, hurt, file, clean>>
        /\ body' = [body EXCEPT ![r] = b]
        /\ pc' = [pc EXCEPT ![r] = "done"] /\ pc[r] = "idle"
    BY <1>6 DEF Submit
  <2> QED BY <1>0, <2>1, AckedQuiet DEF Editing
<1>7. ASSUME NEW r \in Reqs, NEW b \in Bodies, Submit(r, b), Loads
      PROVE  AckedInv'
  <2> DEFINE d == IF b.kind = "names" THEN MergeNames(Load, r, b) ELSE ApplyForm(Load, r, b)
  <2>1. /\ UNCHANGED <<acked, installed, hurt, file>>
        /\ body' = [body EXCEPT ![r] = b] /\ pc' = [pc EXCEPT ![r] = After(Secrets(b))]
        /\ pc[r] = "idle" /\ clean' = IF Writing THEN clean ELSE clean \cup {r}
    BY <1>7 DEF Submit
  <2>2. draft' = [draft EXCEPT ![r] = d]
    BY <1>7 DEF Submit
  <2>3. After(Secrets(b)) \in {"store", "save"}
    BY DEF After
  <2>4. /\ Load \in Config /\ Load.names = Parse(file, Default).names
        /\ Load.host = Parse(file, Default).host
    <3>1. Load \in Config
      BY LoadTyped DEF ShapeInv, StoreTypeOK
    <3>2. "host" \notin DOMAIN env
      BY DEF HostNotOverridden, ShapeInv
    <3> QED BY <3>1, <3>2 DEF Load, ApplyEnv, Override
  <2>5. /\ d.host = IF b.kind = "names" THEN Load.host ELSE r
        /\ \A o \in Outputs :
             d.names[o] = IF b.kind # "names" THEN Load.names[o]
                          ELSE IF o \in b.blank THEN "none" ELSE IF o \in b.set THEN r ELSE Load.names[o]
    BY <2>4 DEF MergeNames, ApplyForm, Config
  <2> HIDE DEF d
  <2>6. r \notin clean /\ \A i \in DOMAIN acked : acked[i] # r
    BY <1>0, <2>1 DEF Editing
  <2>7. /\ Hosting' = Hosting /\ HostHeld' = HostHeld
        /\ \A o \in Outputs : Naming(o)' = Naming(o) /\ NameHeld(o)' = NameHeld(o)
    BY <1>0, <2>1, <2>6, HeldSame
  <2>8. /\ body' \in [Reqs -> Bodies \cup {NoBody}]
        /\ \A q \in Reqs : pc'[q] # "idle" => body'[q] \in Bodies
        /\ \A i \in DOMAIN acked' : pc'[acked'[i]] = "done"
        /\ \A q \in clean' : pc'[q] \in Editing
        /\ \A q \in Reqs : pc'[q] = "write" <=> pc[q] = "write"
    BY <1>0, <2>1, <2>3, <2>6 DEF Editing
  <2>9. installed' \in Config /\ HasLast(Hosting)' /\ \A o \in Outputs : HasLast(Naming(o))'
    BY <2>1, <2>7 DEF AckedInv, HasLast
  <2>10. ASSUME ~hurt'
         PROVE  AckedSettingsHold'
    BY <2>1, <2>7, <2>8, <2>10 DEF AckedInv, AckedSettingsHold, Writing
  <2>11. ASSUME ~hurt', NEW q \in clean'
         PROVE  (\A o \in Outputs : draft'[q].names[o] = DraftName(q, o)') /\ draft'[q].host = DraftHost(q)'
    <3>1. CASE q = r
      <4>1. ~Writing /\ AckedSettingsHold
        BY <2>1, <2>6, <2>11, <3>1 DEF AckedInv
      <4>2. draft'[r] = d /\ body'[r] = b
        BY <1>0, <2>1, <2>2
      <4> QED BY <2>1, <2>4, <2>5, <2>7, <2>11, <3>1, <4>1, <4>2 DEF AckedSettingsHold, DraftName, DraftHost
    <3>2. CASE q # r
      <4>1. q \in clean /\ body'[q] = body[q] /\ draft'[q] = draft[q]
        BY <1>0, <2>1, <2>2, <2>11, <3>2
      <4> QED BY <2>1, <2>7, <2>11, <4>1 DEF AckedInv, DraftName, DraftHost
    <3> QED BY <3>1, <3>2
  <2>12. ASSUME ~hurt', NEW q \in Reqs, pc'[q] = "write"
         PROVE  clean' = {q} /\ file'.at = "empty"
    BY <2>1, <2>8, <2>12 DEF AckedInv, Writing
  <2> QED BY <2>8, <2>9, <2>10, <2>11, <2>12 DEF AckedInv
<1>8. ASSUME NEW r \in Reqs, Save(r), Validate(draft[r])
      PROVE  AckedInv'
  <2>1. /\ UNCHANGED <<acked, installed, draft, body>> /\ clean' = clean \cap {r}
        /\ pc[r] = "save" /\ pc' = [pc EXCEPT ![r] = "write"]
        /\ file' = Emptied(Default) /\ hurt' = (hurt \/ r \notin clean)
    BY <1>8 DEF Save
  <2>2. /\ Hosting' = Hosting /\ HostHeld' = HostHeld
        /\ \A o \in Outputs : Naming(o)' = Naming(o) /\ NameHeld(o)' = NameHeld(o)
    BY <2>1, HeldSame
  <2>3. /\ installed' \in Config /\ body' \in [Reqs -> Bodies \cup {NoBody}]
        /\ HasLast(Hosting)' /\ \A o \in Outputs : HasLast(Naming(o))'
        /\ \A q \in Reqs : pc'[q] # "idle" => body'[q] \in Bodies
        /\ \A i \in DOMAIN acked' : pc'[acked'[i]] = "done"
        /\ \A q \in clean' : pc'[q] \in Editing
    BY <1>0, <2>1, <2>2 DEF AckedInv, HasLast, Editing
  <2>4. AckedSettingsHold'
    BY <1>0, <2>1 DEF AckedSettingsHold, Writing
  <2>5. ASSUME ~hurt'
        PROVE  clean' = {r} /\ file'.at = "empty" /\ \A q \in Reqs : pc'[q] = "write" => q = r
    <3>1. ~hurt /\ r \in clean
      BY <2>1, <2>5
    <3>2. \A q \in Reqs : pc[q] # "write"
      BY <2>1, <3>1 DEF AckedInv
    <3> QED BY <1>0, <2>1, <3>1, <3>2 DEF Emptied
  <2>6. ASSUME ~hurt', NEW q \in clean'
        PROVE  (\A o \in Outputs : draft'[q].names[o] = DraftName(q, o)') /\ draft'[q].host = DraftHost(q)'
    BY <2>1, <2>2, <2>6 DEF AckedInv, DraftName, DraftHost
  <2> QED BY <2>3, <2>4, <2>5, <2>6 DEF AckedInv
<1>9. ASSUME NEW r \in Reqs, WriteConfig(r)
      PROVE  AckedInv'
  <2>1. /\ UNCHANGED <<installed, draft, body>> /\ clean' = {}
        /\ pc[r] = "write" /\ pc' = [pc EXCEPT ![r] = "done"] /\ body[r] \in Bodies
    BY <1>0, <1>9 DEF WriteConfig
  <2>2. CASE /\ file' \in Written(file, draft[r], Default)
             /\ acked' = Append(acked, r)
             /\ hurt' = (hurt \/ r \notin clean)
    <3>1. /\ HasLast(Hosting)' /\ HostHeld' = DraftHost(r)
          /\ \A o \in Outputs : HasLast(Naming(o))' /\ NameHeld(o)' = DraftName(r, o)
      BY <2>1, <2>2, HeldAppend
    <3>2. \A i \in DOMAIN acked' : pc'[acked'[i]] = "done"
      BY <1>0, <2>1, <2>2 DEF ShapeInv, StoreTypeOK
    <3>3. ASSUME ~hurt'
          PROVE  AckedSettingsHold' /\ \A q \in Reqs : pc'[q] # "write"
      <4>1. ~hurt /\ r \in clean
        BY <2>2, <3>3
      <4>2. clean = {r} /\ file.at = "empty" /\ \A q \in Reqs : pc[q] = "write" => q = r
        BY <2>1, <4>1 DEF AckedInv
      <4>3. Parse(file', Default) = draft[r]
        BY <2>2, <4>2 DEF Written, Whole, Parse
      <4>4. (\A o \in Outputs : draft[r].names[o] = DraftName(r, o)) /\ draft[r].host = DraftHost(r)
        BY <4>1 DEF AckedInv
      <4>5. \A q \in Reqs : pc'[q] # "write"
        BY <1>0, <2>1, <4>2
      <4> QED BY <3>1, <4>3, <4>4, <4>5 DEF AckedSettingsHold
    <3> QED BY <1>0, <2>1, <3>1, <3>2, <3>3 DEF AckedInv
  <2>3. CASE UNCHANGED <<file, acked>> /\ hurt'
    <3>1. /\ Hosting' = Hosting
          /\ \A o \in Outputs : Naming(o)' = Naming(o)
      BY <2>1, <2>3, HeldSame
    <3> QED BY <1>0, <2>1, <2>3, <3>1 DEF AckedInv, HasLast
  <2> QED BY <1>9, <2>2, <2>3 DEF WriteConfig
<1> QED
  BY <1>1, <1>2, <1>3, <1>4, <1>5, <1>6, <1>7, <1>8, <1>9 DEF StoreNext, RequestStep

\* config.toml has the name and the host of the last acknowledged save of each,
\* whichever handlers rewrote the whole file in between, as long as no write was
\* cut short or made from a load, or by config-init after a check, that was out of date.
THEOREM AckedSettingsKept == ASSUME HostNotOverridden PROVE StoreSpec => []AckedSettingsHold
<1>1. StoreInit => AckedInv
  <2> SUFFICES ASSUME StoreInit PROVE AckedInv
    OBVIOUS
  <2>1. installed = Parse(file, Default) /\ installed \in Config
    BY DefaultIsConfig, ConfigAssumption DEF StoreInit, Parse, Whole
  <2>2. acked = <<>> /\ clean = {} /\ DOMAIN acked = {}
    BY DEF StoreInit
  <2>3. Hosting = {} /\ \A o \in Outputs : Naming(o) = {}
    BY <2>2 DEF Hosting, Naming
  <2>4. AckedSettingsHold
    BY <2>1, <2>3 DEF AckedSettingsHold, NameHeld, HostHeld
  <2> QED BY <2>1, <2>2, <2>3, <2>4 DEF StoreInit, AckedInv, HasLast
<1>2. ShapeInv /\ LockInv /\ AckedInv /\ [StoreNext]_storeVars => AckedInv'
  BY AckedStep
<1>3. AckedInv => AckedSettingsHold
  BY DEF AckedInv, AckedSettingsHold
<1> QED BY <1>1, <1>2, <1>3, ShapeInvariant, LockInvariant, PTL DEF StoreSpec
=============================================================================
