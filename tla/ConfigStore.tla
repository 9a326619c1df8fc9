---------------------------- MODULE ConfigStore ----------------------------
(***************************************************************************)
(* The core's configuration file and vault: who reads them, who rewrites   *)
(* them, and what a restart finds.                                         *)
(*                                                                         *)
(* Nothing locks config.toml: every handler loads it, edits its own copy   *)
(* and writes the whole file back, and a write empties the file first.     *)
(* The vault is one map in the core's memory behind a mutex, written out   *)
(* whole by every store; the vault-set command does the same with a copy   *)
(* of its own.  A host, a name or a secret is known by the request that    *)
(* set it.                                                                 *)
(***************************************************************************)
EXTENDS Naturals, Sequences

CONSTANTS
  Reqs,      \* HTTP requests, each served at most once
  Outputs,   \* OBS output ids that can be given a name
  Bodies,    \* what requests submit
  Files,     \* configurations the program may be installed with
  Envs,      \* TELEMY_* settings of the environment: fields it overrides
  CliKeys,   \* keys the vault-set command is used for
  MaxRuns,   \* starts of the core
  Tokens,    \* the token each start would generate
  MaxFaults  \* failed writes and kills

Keys == {"obs_password", "grafana_auth", "server_token", "access_jwt"}
Who == Reqs \cup {"none", "old"}
Secret == Who \cup {"cli"} \cup {Tokens[i] : i \in DOMAIN Tokens}

Config ==
  [host: Who, portOk: BOOLEAN, passwordKey: BOOLEAN,
   grafana: BOOLEAN, endpoint: BOOLEAN, authKey: BOOLEAN, intervalOk: BOOLEAN,
   aegis: BOOLEAN, creds: BOOLEAN, token: BOOLEAN, names: [Outputs -> Who]]
Overridable == {"host", "portOk", "passwordKey", "grafana", "endpoint", "authKey",
                "intervalOk", "aegis", "creds", "token"}

Forms == [kind: {"settings"}, portOk: BOOLEAN, intervalOk: BOOLEAN, password: BOOLEAN, grafana: {"none", "endpoint", "all"}]
Payloads == {p \in [kind: {"names"}, set: SUBSET Outputs, blank: SUBSET Outputs] : p.set \cap p.blank = {}}
NoBody == [kind |-> "none"]

ASSUME ConfigAssumption ==
  /\ Files \subseteq Config
  /\ Bodies \subseteq Forms \cup Payloads
  /\ CliKeys \subseteq Keys
  /\ Reqs \cap {"none", "old"} = {}
  /\ MaxRuns \in Nat \ {0} /\ MaxFaults \in Nat
  /\ DOMAIN Tokens = 1..MaxRuns /\ \A i \in DOMAIN Tokens : Tokens[i] # "none"
  /\ \A e \in Envs :
       /\ DOMAIN e \subseteq Overridable
       /\ \A f \in DOMAIN e : e[f] \in IF f = "host" THEN Who ELSE BOOLEAN

VARIABLES
  env,                   \* the environment of every run
  file,                  \* config.toml
  vaultFile,             \* vault.json
  main, runs, token,     \* startup: program point, starts so far, the server's token
  vault,                 \* Vault of the running core
  pc, body, draft, todo, \* requests: program point, input, configuration being edited, secrets to store
  reply,
  configured,            \* ServerState.grafana_configured
  cli, cliVault,         \* the vault-set command and its copy of the vault
  setup,                 \* the config-init command
  clean,                 \* requests whose load is still what the file holds (history)
  acked, installed,      \* saves in the order of their answers, configuration at the outset (history)
  hurt, vaultHurt,       \* a file was cut short or written from a stale copy or check (history)
  faults

startVars == <<main, runs, token>>
reqVars == <<pc, body, draft, todo, reply>>
cliVars == <<cli, cliVault, setup>>
histVars == <<clean, acked, installed, hurt, vaultHurt>>
storeVars == <<env, file, vaultFile, startVars, vault, reqVars, configured, cliVars, histVars, faults>>

\* Struct defaults: Config::default() and the ones of its sections.
Default ==
  [host |-> "none", portOk |-> TRUE, passwordKey |-> FALSE,
   grafana |-> FALSE, endpoint |-> FALSE, authKey |-> FALSE, intervalOk |-> TRUE,
   aegis |-> FALSE, creds |-> FALSE, token |-> FALSE, names |-> [o \in Outputs |-> "none"]]

EmptyVault == [k \in Keys |-> "none"]
Whole(c) == [at |-> "whole", is |-> c]
Emptied(blank) == [at |-> "empty", is |-> blank]

\* A file that cannot be read or parsed reads as the default.
Parse(f, blank) == IF f.at = "whole" THEN f.is ELSE blank

-----------------------------------------------------------------------------
\* config/mod.rs

Override(f, value) == IF f \in DOMAIN env THEN env[f] ELSE value

ApplyEnv(c) ==
  [host |-> Override("host", c.host), portOk |-> Override("portOk", c.portOk),
   passwordKey |-> Override("passwordKey", c.passwordKey),
   grafana |-> Override("grafana", c.grafana), endpoint |-> Override("endpoint", c.endpoint),
   authKey |-> Override("authKey", c.authKey), intervalOk |-> Override("intervalOk", c.intervalOk),
   aegis |-> Override("aegis", c.aegis), creds |-> Override("creds", c.creds),
   token |-> Override("token", c.token), names |-> c.names]

\* server.port and network.latency_target, which no handler changes, are taken to be right.
Validate(c) ==
  /\ c.portOk
  /\ c.grafana => c.endpoint /\ c.authKey /\ c.intervalOk
  /\ c.aegis => c.creds

Load == ApplyEnv(Parse(file, Default))
Loads == Validate(Load)

\* Config::save is a validation, then an open that empties the file, then one write.
Writing == \E r \in Reqs : pc[r] = "write"

\* A write that finds the file no longer empty lands on another one's bytes.
Written(f, content, blank) ==
  {Whole(content)} \cup (IF f.at = "empty" THEN {} ELSE {[at |-> "torn", is |-> blank]})

-----------------------------------------------------------------------------
\* security/mod.rs.  Vault::new reads the file, store rewrites it.

\* The app holds the mutex from the insertion to the end of the write.
VaultHeld == main = "persist" \/ \E r \in Reqs : pc[r] = "persist"
CliBusy == cli \in {"read", "write"}
OpenVault == Parse(vaultFile, EmptyVault)

\* Vault::store up to the point where fs::write has opened the file.
BeginStore(k, v) ==
  /\ vault' = [vault EXCEPT ![k] = v]
  /\ vaultFile' = Emptied(EmptyVault)

\* The rest of fs::write.  Harm is done when a command was under way.
EndStore ==
  /\ vaultFile' \in Written(vaultFile, vault, EmptyVault)
  /\ vaultHurt' = (vaultHurt \/ CliBusy)

-----------------------------------------------------------------------------
\* Startup: run() in app/mod.rs.

Start ==
  /\ main = "down"
  /\ runs < MaxRuns
  /\ runs' = runs + 1
  /\ IF Loads
       THEN main' = "loaded" /\ vault' = OpenVault
       ELSE main' = "refused" /\ UNCHANGED vault
  /\ configured' = (Load.grafana /\ Load.endpoint /\ Load.authKey /\ OpenVault["grafana_auth"] # "none")
  /\ vaultHurt' = (vaultHurt \/ cli = "write")
  /\ UNCHANGED <<env, file, vaultFile, token, reqVars, cliVars, clean, acked, installed, hurt, faults>>

\* Startup goes on with the configuration it loaded.  Until the server is up only
\* config-init writes the file, and none of the fields startup still reads differs
\* between the default it writes and what was saved where there was no file: Load
\* stands for it.  The probe of the control plane, awaited first, writes neither file.
PassProbe ==
  /\ main = "loaded"
  /\ main' = "token"
  /\ UNCHANGED <<env, file, vaultFile, runs, token, vault, reqVars, configured, cliVars, histVars, faults>>

\* A token that was not configured is made anew by every start.
Bug_TakeToken ==
  /\ main = "token"
  /\ main' = "persist"
  /\ token' = Tokens[runs]
  /\ BeginStore("server_token", Tokens[runs])
  /\ UNCHANGED <<env, file, runs, reqVars, configured, cliVars, histVars, faults>>

\* The configured token, else the vault's, else a new one for the vault.
TakeToken ==
  /\ main = "token"
  /\ \/ /\ Load.token
        /\ token' = "none"
        /\ main' = "up"
        /\ UNCHANGED <<vault, vaultFile>>
     \/ /\ ~Load.token
        /\ vault["server_token"] # "none"
        /\ token' = vault["server_token"]
        /\ main' = "up"
        /\ UNCHANGED <<vault, vaultFile>>
     \/ /\ ~Load.token
        /\ vault["server_token"] = "none"
        /\ token' = Tokens[runs]
        /\ main' = "persist"
        /\ BeginStore("server_token", Tokens[runs])
  /\ UNCHANGED <<env, file, runs, reqVars, configured, cliVars, histVars, faults>>

\* A token that cannot be written ends the start.
Bug_KeepToken ==
  /\ main = "persist"
  /\ main' = "failed"
  /\ faults < MaxFaults
  /\ faults' = faults + 1
  /\ vaultHurt' = TRUE
  /\ UNCHANGED <<env, file, vaultFile, runs, token, vault, reqVars, configured, cliVars, clean, acked, installed, hurt>>

\* The server comes up whether or not the token could be written.
KeepToken ==
  /\ main = "persist"
  /\ main' = "up"
  /\ \/ EndStore /\ UNCHANGED faults
     \/ /\ faults < MaxFaults
        /\ faults' = faults + 1
        /\ vaultHurt' = TRUE
        /\ UNCHANGED vaultFile
  /\ UNCHANGED <<env, file, runs, token, vault, reqVars, configured, cliVars, clean, acked, installed, hurt>>

\* The process is killed, or the user quits: what was in flight is lost.
Kill ==
  /\ main # "down"
  /\ faults < MaxFaults
  /\ faults' = faults + 1
  /\ main' = "down"
  /\ pc' = [r \in Reqs |-> IF pc[r] = "idle" THEN "idle" ELSE "done"]
  /\ clean' = {}
  /\ hurt' = (hurt \/ Writing)
  /\ vaultHurt' = (vaultHurt \/ VaultHeld)
  /\ UNCHANGED <<env, file, vaultFile, runs, token, vault, body, draft, todo, reply, configured, cliVars, acked, installed>>

-----------------------------------------------------------------------------
\* Handlers: settings_submit and save_output_names in server/mod.rs.

\* Names the payload does not mention are dropped.
Bug_MergeNames(c, r, b) == [c EXCEPT !.names = [o \in Outputs |-> IF o \in b.set THEN r ELSE "none"]]

\* save_output_names: blank names are removed, the others inserted.
MergeNames(c, r, b) ==
  [c EXCEPT !.names = [o \in Outputs |-> IF o \in b.blank THEN "none"
                                          ELSE IF o \in b.set THEN r ELSE c.names[o]]]

\* settings_submit: credentials count only when the form has all of them.
ApplyForm(c, r, b) ==
  [c EXCEPT !.host = r, !.portOk = b.portOk, !.intervalOk = b.intervalOk,
            !.passwordKey = @ \/ b.password,
            !.endpoint = @ \/ b.grafana # "none",
            !.grafana = @ \/ b.grafana = "all",
            !.authKey = @ \/ b.grafana = "all"]

\* Secrets a request stores, in the order it does.
Secrets(b) ==
  IF b.kind = "names" THEN <<>>
  ELSE (IF b.password THEN <<"obs_password">> ELSE <<>>)
       \o (IF b.grafana = "all" THEN <<"grafana_auth">> ELSE <<>>)

\* The save does not wait for the secrets.
Bug_After(todoLeft) == "save"

\* The next thing a request does: another secret, or the save.
After(todoLeft) == IF todoLeft = <<>> THEN "save" ELSE "store"

\* Authorization and Config::load, which fails the request at once.
Submit(r, b) ==
  /\ main = "up"
  /\ pc[r] = "idle"
  /\ body' = [body EXCEPT ![r] = b]
  /\ IF Loads
       THEN /\ draft' = [draft EXCEPT ![r] = IF b.kind = "names" THEN MergeNames(Load, r, b) ELSE ApplyForm(Load, r, b)]
            /\ todo' = [todo EXCEPT ![r] = Secrets(b)]
            /\ pc' = [pc EXCEPT ![r] = After(Secrets(b))]
            /\ clean' = IF Writing THEN clean ELSE clean \cup {r}
            /\ UNCHANGED reply
       ELSE /\ pc' = [pc EXCEPT ![r] = "done"]
            /\ reply' = [reply EXCEPT ![r] = "error"]
            /\ UNCHANGED <<draft, todo, clean>>
  /\ UNCHANGED <<env, file, vaultFile, startVars, vault, configured, cliVars, acked, installed, hurt, vaultHurt, faults>>

StoreSecret(r) ==
  /\ pc[r] = "store"
  /\ ~VaultHeld
  /\ BeginStore(Head(todo[r]), r)
  /\ pc' = [pc EXCEPT ![r] = "persist"]
  /\ UNCHANGED <<env, file, startVars, body, draft, todo, reply, configured, cliVars, histVars, faults>>

PersistSecret(r) ==
  /\ pc[r] = "persist"
  /\ EndStore
  /\ todo' = [todo EXCEPT ![r] = Tail(@)]
  /\ pc' = [pc EXCEPT ![r] = After(Tail(todo[r]))]
  /\ configured' = (configured \/ Head(todo[r]) = "grafana_auth")
  /\ UNCHANGED <<env, file, startVars, vault, body, draft, reply, cliVars, clean, acked, installed, hurt, faults>>

\* A secret that cannot be written ends the request; the insertion stays.
FailSecret(r) ==
  /\ pc[r] = "persist"
  /\ faults < MaxFaults
  /\ faults' = faults + 1
  /\ vaultHurt' = TRUE
  /\ pc' = [pc EXCEPT ![r] = "done"]
  /\ reply' = [reply EXCEPT ![r] = "error"]
  /\ clean' = clean \ {r}
  /\ UNCHANGED <<env, file, vaultFile, startVars, vault, body, draft, todo, configured, cliVars, acked, installed, hurt>>

\* What was edited is written without being validated.
Bug_Save(r) ==
  /\ pc[r] = "save"
  /\ pc' = [pc EXCEPT ![r] = "write"]
  /\ file' = Emptied(Default)
  /\ hurt' = (hurt \/ r \notin clean)
  /\ clean' = clean \cap {r}
  /\ UNCHANGED <<env, vaultFile, startVars, vault, body, draft, todo, reply, configured, cliVars, acked, installed, vaultHurt, faults>>

Save(r) ==
  /\ pc[r] = "save"
  /\ IF Validate(draft[r])
       THEN /\ pc' = [pc EXCEPT ![r] = "write"]
            /\ file' = Emptied(Default)
            /\ hurt' = (hurt \/ r \notin clean)
            /\ clean' = clean \cap {r}
            /\ UNCHANGED reply
       ELSE /\ pc' = [pc EXCEPT ![r] = "done"]
            /\ reply' = [reply EXCEPT ![r] = "error"]
            /\ clean' = clean \ {r}
            /\ UNCHANGED <<file, hurt>>
  /\ UNCHANGED <<env, vaultFile, startVars, vault, body, draft, todo, configured, cliVars, acked, installed, vaultHurt, faults>>

WriteConfig(r) ==
  /\ pc[r] = "write"
  /\ pc' = [pc EXCEPT ![r] = "done"]
  /\ \/ /\ file' \in Written(file, draft[r], Default)
        /\ reply' = [reply EXCEPT ![r] = "ok"]
        /\ acked' = Append(acked, r)
        /\ hurt' = (hurt \/ r \notin clean)
        /\ UNCHANGED faults
     \/ /\ faults < MaxFaults
        /\ faults' = faults + 1
        /\ reply' = [reply EXCEPT ![r] = "error"]
        /\ hurt' = TRUE
        /\ UNCHANGED <<file, acked>>
  /\ clean' = {}
  /\ UNCHANGED <<env, vaultFile, startVars, vault, body, draft, todo, configured, cliVars, installed, vaultHurt>>

-----------------------------------------------------------------------------
\* Commands run beside the core: vault-set and config-init.

CliOpen(k) ==
  /\ cli = "idle"
  /\ Loads
  /\ cli' = "read"
  /\ cliVault' = [OpenVault EXCEPT ![k] = "cli"]
  /\ vaultHurt' = (vaultHurt \/ VaultHeld)
  /\ UNCHANGED <<env, file, vaultFile, startVars, vault, reqVars, configured, setup, clean, acked, installed, hurt, faults>>

CliTruncate ==
  /\ cli = "read"
  /\ cli' = "write"
  /\ vaultFile' = Emptied(EmptyVault)
  /\ vaultHurt' = (vaultHurt \/ VaultHeld)
  /\ UNCHANGED <<env, file, startVars, vault, reqVars, configured, cliVault, setup, clean, acked, installed, hurt, faults>>

\* The command writes its copy: what the core stored meanwhile is gone.
CliWrite ==
  /\ cli = "write"
  /\ cli' = "done"
  /\ vaultFile' \in Written(vaultFile, cliVault, EmptyVault)
  /\ vaultHurt' = (vaultHurt \/ VaultHeld)
  /\ UNCHANGED <<env, file, startVars, vault, reqVars, configured, cliVault, setup, clean, acked, installed, hurt, faults>>

\* config-init: Config::load, and write_default finds that there is no file.
CheckAbsent ==
  /\ setup = "idle"
  /\ Loads
  /\ file.at = "missing"
  /\ setup' = "absent"
  /\ UNCHANGED <<env, file, vaultFile, startVars, vault, reqVars, configured, cli, cliVault, histVars, faults>>

\* It opens the file all the same if a save has made one since the check.
EmptyForDefault ==
  /\ setup = "absent"
  /\ setup' = "write"
  /\ file' = Emptied(Default)
  /\ hurt' = (hurt \/ file.at # "missing")
  /\ UNCHANGED <<env, vaultFile, startVars, vault, reqVars, configured, cli, cliVault, clean, acked, installed, vaultHurt, faults>>

\* Harm is done when a save has opened the file meanwhile.
WriteDefault ==
  /\ setup = "write"
  /\ setup' = "done"
  /\ file' \in Written(file, Default, Default)
  /\ hurt' = (hurt \/ Writing \/ file.at # "empty")
  /\ UNCHANGED <<env, vaultFile, startVars, vault, reqVars, configured, cli, cliVault, clean, acked, installed, vaultHurt, faults>>

\* The command is killed or its write fails.
AbandonDefault ==
  /\ setup \in {"absent", "write"}
  /\ faults < MaxFaults
  /\ faults' = faults + 1
  /\ setup' = "done"
  /\ UNCHANGED <<env, file, vaultFile, startVars, vault, reqVars, configured, cli, cliVault, histVars>>

ConfigInit == CheckAbsent \/ EmptyForDefault \/ WriteDefault \/ AbandonDefault

-----------------------------------------------------------------------------
StoreInit ==
  /\ env \in Envs
  /\ file \in {Whole(c) : c \in Files} \cup {[at |-> "missing", is |-> Default]}
  /\ Loads
  /\ vaultFile \in {[at |-> "missing", is |-> EmptyVault], Whole([EmptyVault EXCEPT !["access_jwt"] = "old"])}
  /\ main = "down"
  /\ runs = 0
  /\ token = "none"
  /\ vault = EmptyVault
  /\ pc = [r \in Reqs |-> "idle"]
  /\ body = [r \in Reqs |-> NoBody]
  /\ draft = [r \in Reqs |-> Default]
  /\ todo = [r \in Reqs |-> <<>>]
  /\ reply = [r \in Reqs |-> "none"]
  /\ configured = FALSE
  /\ cli = "idle"
  /\ cliVault = EmptyVault
  /\ setup = "idle"
  /\ clean = {}
  /\ acked = <<>>
  /\ installed = Parse(file, Default)
  /\ hurt = FALSE
  /\ vaultHurt = FALSE
  /\ faults = 0

\* One step of a request that edits the configuration.
RequestStep(r) ==
  \/ StoreSecret(r)
  \/ PersistSecret(r)
  \/ FailSecret(r)
  \/ Save(r)
  \/ WriteConfig(r)

StoreNext ==
  \/ Start
  \/ PassProbe
  \/ TakeToken
  \/ KeepToken
  \/ \E r \in Reqs : (\E b \in Bodies : Submit(r, b)) \/ RequestStep(r)
  \/ \E k \in CliKeys : CliOpen(k)
  \/ CliTruncate
  \/ CliWrite
  \/ ConfigInit
  \/ Kill

StoreSpec == StoreInit /\ [][StoreNext]_storeVars

-----------------------------------------------------------------------------
(***************************************************************************)
(* Properties                                                              *)
(***************************************************************************)

\* Every variable keeps its type.
StoreTypeOK ==
  /\ file.at \in {"missing", "empty", "torn", "whole"} /\ file.is \in Config
  /\ vaultFile.at \in {"missing", "empty", "torn", "whole"} /\ vaultFile.is \in [Keys -> Secret]
  /\ main \in {"down", "loaded", "token", "persist", "up", "refused"}
  /\ runs \in 0..MaxRuns /\ token \in Secret
  /\ vault \in [Keys -> Secret] /\ cliVault \in [Keys -> Secret]
  /\ pc \in [Reqs -> {"idle", "store", "persist", "save", "write", "done"}]
  /\ draft \in [Reqs -> Config] /\ acked \in Seq(Reqs)
  /\ todo \in [Reqs -> Seq(Keys)]
  /\ reply \in [Reqs -> {"none", "ok", "error"}]
  /\ {configured, hurt, vaultHurt} \subseteq BOOLEAN
  /\ cli \in {"idle", "read", "write", "done"} /\ setup \in {"idle", "absent", "write", "done"}
  /\ clean \subseteq Reqs
  /\ faults \in 0..MaxFaults

\* The positions in acked of the saves that mention an output, and of the forms.
Naming(o) ==
  {i \in DOMAIN acked : /\ body[acked[i]].kind = "names"
                        /\ o \in body[acked[i]].set \cup body[acked[i]].blank}
Hosting == {i \in DOMAIN acked : body[acked[i]].kind = "settings"}
LastOf(seq, I) == seq[CHOOSE i \in I : \A j \in I : j <= i]

\* The name and the host the last of them has left.
NameHeld(o) ==
  IF Naming(o) = {} THEN installed.names[o]
  ELSE IF o \in body[LastOf(acked, Naming(o))].blank THEN "none" ELSE LastOf(acked, Naming(o))
HostHeld == IF Hosting = {} THEN installed.host ELSE LastOf(acked, Hosting)

\* Saves that do not overlap add up: config.toml has for every output the name
\* of the last acknowledged save_output_names that mentions it and the host of
\* the last settings_submit, whichever handlers rewrote the file in between and
\* whenever config-init found none, unless a write was cut short or made from a
\* load, or by config-init after a check, that another write had outdated.
AckedSettingsHold ==
  ~hurt /\ ~Writing =>
    /\ \A o \in Outputs : Parse(file, Default).names[o] = NameHeld(o)
    /\ Parse(file, Default).host = HostHeld

\* The environment is one the defaults load under, Grafana switched on or not.
EnvSound ==
  /\ Validate(ApplyEnv(Default))
  /\ Validate(ApplyEnv([Default EXCEPT !.grafana = TRUE, !.endpoint = TRUE, !.authKey = TRUE]))

\* Whatever a save, a failed write or a kill leaves of config.toml, the next
\* start loads it, although save validates what it writes without the environment
\* that load applies to it.
AlwaysRestarts == EnvSound => Loads /\ main # "refused"

\* The secrets config.toml refers to are in vault.json, which the next start
\* reads, although they are two files written at different times; the settings
\* page calls Grafana configured only when its credentials are there.
ReferencedSecretsStored ==
  ~vaultHurt /\ ~VaultHeld /\ cli # "write" =>
    /\ Parse(file, Default).passwordKey => OpenVault["obs_password"] # "none"
    /\ Parse(file, Default).authKey \/ (configured /\ main = "up") => OpenVault["grafana_auth"] # "none"

\* The dashboard's address survives a restart: a start takes the token the last
\* one had, whatever was stored since, unless vault.json was damaged.
TokenStable ==
  [][main = "token" /\ main' \in {"up", "persist"} /\ token # "none" /\ ~vaultHurt => token' = token]_storeVars
=============================================================================
