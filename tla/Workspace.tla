------------------------------ MODULE Workspace ------------------------------
(***************************************************************************)
(* The local workspace: the config file with its database names, their     *)
(* deployment metadata, the default database and the wallet path, and the  *)
(* wallet files; and the commands that change them: database, wallet,      *)
(* setup, new, deploy, and the saving of metadata that ends an upgrade     *)
(* (config.rs, databases.rs, onboarding.rs, deployment.rs,                 *)
(* private_file.rs).  A deploy replaces the program of a Circle, and       *)
(* restore --bootstrap-owner relies on what a deploy has saved.            *)
(*                                                                         *)
(* Every command is a process.  It loads the whole config, changes its     *)
(* copy and writes the whole copy back; nothing locks the file, and new    *)
(* creates a Circle in between.  Any command may stop at any point.        *)
(*                                                                         *)
(* The Circle that command p deploys is called p, and so is the key that   *)
(* it stores in a wallet file.                                             *)
(***************************************************************************)
EXTENDS FiniteSets

CONSTANTS
    Commands,
    Names,           \* of databases
    Found,           \* Circles that exist at first
    Unprotected,     \* those of them that run a raw program
    Paths,           \* of wallet files
    DefaultPath,     \* ~/.octra/wallet.json
    Given,           \* the key of a wallet file that exists at first
    Inputs,          \* of the commands, each [kind, name, circle, path, flags]
    Torn,            \* a config file that is not whole
    None

Circles == Found \cup Commands
Keys == Commands \cup {Given}
Programs == {"raw", "personalized"}     \* whether it asks for the owner's key
Answers == {"none", "owned", "configured", "unconfigured", "error"}    \* of auth_info

Config ==
    [databases : [Names -> Circles \cup {None}],
     metadata : [Names \cup Circles -> Circles \cup {None}],   \* the Circle it is about
     default : Names \cup {None},
     wallet : Paths \cup {None}]

ASSUME WorkspaceAssumption ==
    /\ DefaultPath \in Paths
    /\ None \notin Names \cup Circles \cup Paths
    /\ Commands \cap Found = {} /\ Given \notin Commands
    /\ Keys \cap {"absent", "partial"} = {} /\ Torn \notin Config
    /\ \A given \in Inputs : \A p \in Commands :
          /\ given[p].name \in Names /\ given[p].circle \in Found
          /\ given[p].path \in Paths \cup {None}
          /\ given[p].kind = "attach" => given[p].path # None

(* bundled_default_config: networks, but no database and no wallet. *)
Defaults ==
    [databases |-> [n \in Names |-> None],
     metadata |-> [k \in Names \cup Circles |-> None],
     default |-> None,
     wallet |-> None]

VARIABLES
    input,
    config,          \* the config file, as load_config reads it
    wallets,         \* the wallet files: a key, "absent" or "partial"
    deployed,        \* the deploy transactions the chain has not executed
    circles,         \* the Circles that exist
    program,         \* that a Circle runs
    updates,         \* the program updates the chain has not executed
    auth,            \* what a deploy has learnt of the program it replaces
    pc,
    copy,            \* the config a command has loaded and changed
    output,          \* the wallet file a command writes
    then,            \* what a command does when it has written the config
    overlap          \* the file has been replaced since the command loaded it

files == <<config, wallets>>
chain == <<deployed, circles>>
programs == <<program, updates, auth>>
vars == <<input, config, wallets, deployed, circles, programs, pc, copy, output, then, overlap>>

Ended == {"done", "failed", "stopped"}
Places == Ended \cup {"start", "wallet", "fill", "finish", "create", "confirm", "save",
                      "initialize", "metadata", "update", "watch", "first", "write", "rename"}

Is(p, kind) == input[p].kind = kind
Has(p, flag) == flag \in input[p].flags
Goto(p, where) == pc' = [pc EXCEPT ![p] = where]

Usable(path) == wallets[path] \in Keys

-----------------------------------------------------------------------------
Init ==
    /\ input \in Inputs
    /\ config = Defaults
    /\ wallets \in [Paths -> {"absent", Given}]
    /\ deployed = {}
    /\ circles = Found
    /\ program = [c \in Found |-> IF c \in Unprotected THEN "raw" ELSE "personalized"]
    /\ updates = {}
    /\ auth = [p \in Commands |-> "none"]
    /\ pc = [p \in Commands |-> "start"]
    /\ copy = [p \in Commands |-> Defaults]
    /\ output = [p \in Commands |-> DefaultPath]
    /\ then = [p \in Commands |-> "done"]
    /\ overlap = [p \in Commands |-> FALSE]

(* load_config, whose result the command changes to c. *)
Load(p, c, where) ==
    /\ config # Torn
    /\ copy' = [copy EXCEPT ![p] = c]
    /\ overlap' = [overlap EXCEPT ![p] = FALSE]
    /\ Goto(p, where)

Starts(p, kind) == pc[p] = "start" /\ Is(p, kind)

Fails(p) ==
    /\ Goto(p, "failed")
    /\ UNCHANGED <<copy, overlap>>

(* database NAME set, default, remove. *)
SetDatabase(p) ==
    /\ Starts(p, "set")
    /\ Load(p, [config EXCEPT !.databases[input[p].name] = input[p].circle,
                              !.default = IF @ = None THEN input[p].name ELSE @], "write")
    /\ UNCHANGED <<input, programs, files, chain, output, then>>

SetDefault(p) ==
    /\ Starts(p, "default")
    /\ IF config.databases[input[p].name] = None
       THEN Fails(p)
       ELSE Load(p, [config EXCEPT !.default = input[p].name], "write")
    /\ UNCHANGED <<input, programs, files, chain, output, then>>

(* Mutant: the default still names the database. *)
RemoveDatabaseOnly(p) ==
    /\ Starts(p, "remove")
    /\ Load(p, [config EXCEPT !.databases[input[p].name] = None,
                              !.metadata[input[p].name] = None], "write")
    /\ UNCHANGED <<input, programs, files, chain, output, then>>

RemoveDatabase(p) ==
    /\ Starts(p, "remove")
    /\ Load(p, [config EXCEPT !.databases[input[p].name] = None,
                              !.metadata[input[p].name] = None,
                              !.default = IF @ = input[p].name THEN None ELSE @], "write")
    /\ UNCHANGED <<input, programs, files, chain, output, then>>

(* save_database_metadata, at the end of deploy --bootstrap-owner, of upgrade
   and of rollback. *)
MetadataKeys(c, circle) ==
    LET named == {n \in Names : c.databases[n] = circle}
    IN  IF named = {} THEN {circle} ELSE named

SaveMetadata(p) ==
    /\ Starts(p, "upgrade") \/ pc[p] = "metadata"
    /\ Load(p, [config EXCEPT !.metadata =
                   [k \in DOMAIN @ |-> IF k \in MetadataKeys(config, input[p].circle)
                                       THEN input[p].circle ELSE @[k]]], "write")
    /\ UNCHANGED <<input, programs, files, chain, output, then>>

-----------------------------------------------------------------------------
(* Wallets                                                                 *)

(* configured_or_discovered_wallet, discover_wallet_path.  Nobody deletes a
   wallet file, so the configured one is there. *)
FoundWallet(c) ==
    IF c.wallet # None THEN c.wallet
    ELSE IF wallets[DefaultPath] # "absent" THEN DefaultPath
    ELSE None

AttachWallet(p) ==
    /\ Starts(p, "attach")
    /\ IF Usable(input[p].path)
       THEN Load(p, [config EXCEPT !.wallet = input[p].path], "write")
       ELSE Fails(p)
    /\ UNCHANGED <<input, programs, files, chain, output, then>>

(* cmd_wallet_import: where the wallet goes. *)
StartImport(p) ==
    /\ Starts(p, "import")
    /\ Load(p, config, "wallet")
    /\ output' = [output EXCEPT ![p] = IF input[p].path # None THEN input[p].path
                                       ELSE IF config.wallet # None THEN config.wallet
                                       ELSE DefaultPath]
    /\ UNCHANGED <<input, programs, files, chain, then>>

(* prompt_wallet_onboarding, where nothing is configured and no wallet is
   found: attach a file, paste or import a key, or skip. *)
Prompt(p, skip, next) ==
    /\ then' = [then EXCEPT ![p] = next]
    /\ \/ /\ input[p].path # None
          /\ IF Usable(input[p].path)
             THEN Load(p, [config EXCEPT !.wallet = input[p].path], "write")
             ELSE Fails(p)
          /\ UNCHANGED output
       \/ /\ input[p].path = None
          /\ Load(p, config, "wallet")
          /\ output' = [output EXCEPT ![p] = DefaultPath]
       \/ /\ skip /\ UNCHANGED output

StartSetup(p) ==
    /\ Starts(p, "setup")
    /\ LET wallet == IF Has(p, "wallet") THEN input[p].path ELSE FoundWallet(config)
       IN  IF wallet # None
           THEN /\ IF Usable(wallet)
                   THEN Load(p, [config EXCEPT !.wallet = wallet], "write")
                   ELSE Fails(p)
                /\ UNCHANGED <<output, then>>
           ELSE \/ /\ Has(p, "interactive")
                   /\ Prompt(p, Load(p, config, "finish"), "finish")
                \/ /\ ~Has(p, "interactive")
                   /\ Load(p, config, "finish")
                   /\ UNCHANGED <<output, then>>
    /\ UNCHANGED <<input, programs, files, chain>>

(* setup ends: it writes the network into its copy. *)
FinishSetup(p) ==
    /\ pc[p] = "finish"
    /\ then' = [then EXCEPT ![p] = "done"]
    /\ Goto(p, "write")
    /\ UNCHANGED <<input, programs, files, chain, copy, output, overlap>>

(* Mutant: the file is opened for writing without create_new. *)
CreateWalletAnyway(p) ==
    /\ pc[p] = "wallet" /\ ~Has(p, "force")
    /\ wallets' = [wallets EXCEPT ![output[p]] = "partial"]
    /\ Goto(p, "fill")
    /\ UNCHANGED <<input, programs, config, chain, copy, output, then, overlap>>

(* write_new: the file is created, and then filled. *)
CreateWallet(p) ==
    /\ pc[p] = "wallet" /\ ~Has(p, "force")
    /\ IF wallets[output[p]] = "absent"
       THEN wallets' = [wallets EXCEPT ![output[p]] = "partial"] /\ Goto(p, "fill")
       ELSE Goto(p, "failed") /\ UNCHANGED wallets
    /\ UNCHANGED <<input, programs, config, chain, copy, output, then, overlap>>

(* The wallet is stored: the config is to name it, unless --no-use. *)
UseWallet(p) ==
    IF Has(p, "no_use")
    THEN Goto(p, "done") /\ UNCHANGED copy
    ELSE Goto(p, "write") /\ copy' = [copy EXCEPT ![p].wallet = output[p]]

(* A file that was replaced meanwhile is no longer the one it writes. *)
FillWallet(p) ==
    /\ pc[p] = "fill"
    /\ \/ /\ wallets' = [wallets EXCEPT ![output[p]] = IF @ = "partial" THEN p ELSE @]
          /\ UseWallet(p)
       \/ Goto(p, "failed") /\ UNCHANGED <<wallets, copy>>
    /\ UNCHANGED <<input, programs, config, chain, output, then, overlap>>

(* wallet import --force: atomic_replace of the wallet file. *)
ReplaceWallet(p) ==
    /\ pc[p] = "wallet" /\ Has(p, "force")
    /\ wallets' = [wallets EXCEPT ![output[p]] = p]
    /\ UseWallet(p)
    /\ UNCHANGED <<input, programs, config, chain, output, then, overlap>>

-----------------------------------------------------------------------------
(* new                                                                     *)

(* ensure_new_database_name_available. *)
NameIsTaken(p) == config.databases[input[p].name] # None /\ ~Has(p, "no_name")

(* ensure_wallet_for_database_creation. *)
StartNew(p) ==
    /\ Starts(p, "new")
    /\ IF NameIsTaken(p)
       THEN Fails(p) /\ UNCHANGED <<output, then>>
       ELSE IF FoundWallet(config) # None
       THEN /\ IF Usable(FoundWallet(config)) THEN Load(p, config, "create") ELSE Fails(p)
            /\ UNCHANGED <<output, then>>
       ELSE \/ /\ Has(p, "interactive")
               /\ Prompt(p, Fails(p), "create")
            \/ /\ ~Has(p, "interactive")
               /\ Fails(p) /\ UNCHANGED <<output, then>>
    /\ UNCHANGED <<input, programs, files, chain>>

(* build_control_session, which loads the config once more, and the
   submission of create_circle; its answer may be lost. *)
SubmitDeploy(p) ==
    /\ pc[p] = "create"
    /\ LET session == FoundWallet(config)
       IN  \/ Goto(p, "failed") /\ UNCHANGED deployed
           \/ /\ session # None /\ Usable(session)
              /\ deployed' = deployed \cup {p}
              /\ \/ Goto(p, "failed")
                 \/ Goto(p, IF Has(p, "no_wait") THEN "save" ELSE "confirm")
    /\ UNCHANGED <<input, programs, files, circles, copy, output, then, overlap>>

(* Mutant: the wait goes on for as long as the Circle is not there. *)
ConfirmDeployForever(p) ==
    /\ pc[p] = "confirm" /\ p \in circles
    /\ Goto(p, "save")
    /\ UNCHANGED <<input, programs, files, chain, copy, output, then, overlap>>

(* wait_for_transaction and wait_for_program_info, both bounded. *)
ConfirmDeploy(p) ==
    /\ pc[p] = "confirm"
    /\ \/ p \in circles /\ Goto(p, "save")
       \/ Goto(p, "failed")
    /\ UNCHANGED <<input, programs, files, chain, copy, output, then, overlap>>

(* Mutant: the name is saved with a config of its own. *)
SaveNameAlone(p) ==
    /\ pc[p] = "save"
    /\ copy' = [copy EXCEPT ![p] =
                  [Defaults EXCEPT !.databases[input[p].name] = p,
                                   !.metadata[input[p].name] = p,
                                   !.default = input[p].name,
                                   !.wallet = copy[p].wallet]]
    /\ then' = [then EXCEPT ![p] = "initialize"]
    /\ Goto(p, "write")
    /\ UNCHANGED <<input, programs, files, chain, output, overlap>>

(* save_new_database_name changes the copy that was loaded at the start. *)
Naming(p, c) ==
    [c EXCEPT !.databases[input[p].name] = p,
              !.metadata[input[p].name] = p,
              !.default = IF Has(p, "default") \/ @ = None THEN input[p].name ELSE @]

SaveName(p) ==
    /\ pc[p] = "save"
    /\ IF Has(p, "no_name")
       THEN Goto(p, "initialize") /\ UNCHANGED <<copy, then>>
       ELSE /\ copy' = [copy EXCEPT ![p] = Naming(p, copy[p])]
            /\ then' = [then EXCEPT ![p] = "initialize"]
            /\ Goto(p, "write")
    /\ UNCHANGED <<input, programs, files, chain, output, overlap>>

(* The initializers, the readiness checks and the manifest. *)
FinishNew(p) ==
    /\ pc[p] = "initialize"
    /\ Goto(p, "done") \/ Goto(p, "failed")
    /\ UNCHANGED <<input, programs, files, chain, copy, output, then, overlap>>

-----------------------------------------------------------------------------
(* deploy, and restore --bootstrap-owner                                   *)

HasWallet == FoundWallet(config) # None /\ Usable(FoundWallet(config))

(* Mutant: an auth_info that fails counts as that of a raw program. *)
LearntForgiving(p) ==
    IF Has(p, "bootstrap") THEN {"owned"}
    ELSE {IF program[input[p].circle] = "personalized" THEN "configured" ELSE "error", "error"}

(* With --bootstrap-owner the Circle has to be the wallet's; otherwise the
   personalization that auth_info tells of is kept, and a raw program is
   deployed only on request. *)
Learnt(p) ==
    LET runs == program[input[p].circle]
    IN  IF Has(p, "bootstrap") THEN {"owned"}
        ELSE (IF runs = "personalized" THEN {"configured"} ELSE {})
             \cup (IF ~Has(p, "allow_unconfigured") THEN {}
                   ELSE {"error"} \cup (IF runs = "raw" THEN {"unconfigured"} ELSE {}))

(* patch_wasm_auth_for_owner, patch_wasm_auth_from_info. *)
Code(p) == IF auth[p] \in {"owned", "configured"} THEN "personalized" ELSE "raw"

StartDeploy(p) ==
    /\ Starts(p, "deploy")
    /\ \/ Goto(p, "failed") /\ UNCHANGED auth
       \/ /\ HasWallet
          /\ \E a \in Learnt(p) : auth' = [auth EXCEPT ![p] = a]
          /\ Goto(p, "update")
    /\ UNCHANGED <<input, files, chain, program, updates, copy, output, then, overlap>>

(* circle_program_update, whose answer may be lost. *)
SubmitUpdate(p) ==
    /\ pc[p] = "update"
    /\ \/ Goto(p, "failed") /\ UNCHANGED updates
       \/ /\ updates' = updates \cup {p}
          /\ Goto(p, "failed") \/ Goto(p, IF Has(p, "no_wait") THEN "done" ELSE "watch")
    /\ UNCHANGED <<input, files, chain, program, auth, copy, output, then, overlap>>

(* wait_for_program_info compares the hash of the program that runs. *)
ConfirmUpdate(p) ==
    /\ pc[p] = "watch"
    /\ \/ /\ program[input[p].circle] = Code(p)
          /\ Goto(p, IF Has(p, "bootstrap") THEN "metadata" ELSE "done")
       \/ Goto(p, "failed")
    /\ UNCHANGED <<input, programs, files, chain, copy, output, then, overlap>>

(* resolve_bootstrap_owner_mode: where auth_info finds no storage yet, the
   metadata and the program have to be those of a bootstrap deploy.  The
   restore itself is in module Script. *)
ResolveBootstrap(p) ==
    /\ Starts(p, "bootstrap")
    /\ \/ Goto(p, "failed")
       \/ HasWallet /\ Goto(p, "done")
       \/ /\ HasWallet
          /\ \E k \in Names \cup Circles : config.metadata[k] = input[p].circle
          /\ program[input[p].circle] = "personalized"
          /\ Goto(p, "first")
    /\ UNCHANGED <<input, programs, files, chain, copy, output, then, overlap>>

(* The first write, signed without having asked the Circle for its owner. *)
WriteFirst(p) ==
    /\ pc[p] = "first"
    /\ Goto(p, "done") \/ Goto(p, "failed")
    /\ UNCHANGED <<input, programs, files, chain, copy, output, then, overlap>>

-----------------------------------------------------------------------------
(* write_config                                                            *)

(* Mutant: the file itself is opened and written. *)
WriteInPlace(p) ==
    /\ pc[p] = "write"
    /\ config' = Torn
    /\ Goto(p, "rename")
    /\ UNCHANGED <<input, programs, wallets, chain, copy, output, then, overlap>>

(* atomic_replace: the temporary file is created, written and synced. *)
WriteTemporary(p) ==
    /\ pc[p] = "write"
    /\ Goto(p, "rename") \/ Goto(p, "failed")
    /\ UNCHANGED <<input, programs, files, chain, copy, output, then, overlap>>

Rename(p) ==
    /\ pc[p] = "rename"
    /\ config' = copy[p]
    /\ Goto(p, then[p])
    /\ overlap' = [q \in Commands |-> q # p \/ overlap[q]]
    /\ UNCHANGED <<input, programs, wallets, chain, copy, output, then>>

(* The process is killed; a temporary file may be left behind. *)
Stop(p) ==
    /\ pc[p] \notin Ended
    /\ Goto(p, "stopped")
    /\ UNCHANGED <<input, programs, files, chain, copy, output, then, overlap>>

(* The chain executes a deploy transaction, or never will. *)
ExecuteDeploy(p) ==
    /\ p \in deployed
    /\ deployed' = deployed \ {p}
    /\ circles' = circles \cup {p} \/ UNCHANGED circles
    /\ UNCHANGED <<input, programs, files, pc, copy, output, then, overlap>>

ExecuteUpdate(p) ==
    /\ p \in updates
    /\ updates' = updates \ {p}
    /\ program' = [program EXCEPT ![input[p].circle] = Code(p)] \/ UNCHANGED program
    /\ UNCHANGED <<input, files, chain, auth, pc, copy, output, then, overlap>>

Step(p) ==
    \/ SetDatabase(p) \/ SetDefault(p) \/ RemoveDatabase(p) \/ SaveMetadata(p)
    \/ AttachWallet(p) \/ StartImport(p) \/ StartSetup(p) \/ FinishSetup(p)
    \/ CreateWallet(p) \/ FillWallet(p) \/ ReplaceWallet(p)
    \/ StartNew(p) \/ SubmitDeploy(p) \/ ConfirmDeploy(p) \/ SaveName(p) \/ FinishNew(p)
    \/ StartDeploy(p) \/ SubmitUpdate(p) \/ ConfirmUpdate(p)
    \/ ResolveBootstrap(p) \/ WriteFirst(p)
    \/ WriteTemporary(p) \/ Rename(p)

Next == \E p \in Commands : Step(p) \/ Stop(p) \/ ExecuteDeploy(p) \/ ExecuteUpdate(p)

(* A command that is not stopped runs. *)
Spec == Init /\ [][Next]_vars /\ \A p \in Commands : WF_vars(Step(p))

-----------------------------------------------------------------------------
WorkspaceTypeOK ==
    /\ input \in Inputs
    /\ config \in Config
    /\ wallets \in [Paths -> Keys \cup {"absent", "partial"}]
    /\ deployed \cup updates \subseteq Commands /\ circles \subseteq Circles
    /\ program \in [Found -> Programs]
    /\ auth \in [Commands -> Answers]
    /\ pc \in [Commands -> Places]
    /\ copy \in [Commands -> Config]
    /\ output \in [Commands -> Paths]
    /\ then \in [Commands -> {"done", "finish", "create", "initialize"}]
    /\ overlap \in [Commands -> BOOLEAN]

(* What every config satisfies that is in the file or about to be written. *)
DefaultIsSaved(c) == c.default # None => c.databases[c.default] # None
WalletIsThere(c) == c.wallet # None => Usable(c.wallet)

(* A name that new has saved names a Circle that exists, or one whose      *)
(* deployment it was told not to wait for.                                 *)
NamesExist(c) ==
    \A n \in Names : c.databases[n] \in Commands =>
        c.databases[n] \in circles \/ Has(c.databases[n], "no_wait")

(* Metadata is saved for a Circle by an upgrade or a deployment for the     *)
(* owner, at its end.                                                      *)
Earned(circle) ==
    \E q \in Commands : input[q].circle = circle /\ (Is(q, "upgrade") \/ Has(q, "bootstrap"))
MetadataIsEarned(c) ==
    \A k \in Names \cup Circles : c.metadata[k] \in Found => Earned(c.metadata[k])

Sound(c) == DefaultIsSaved(c) /\ WalletIsThere(c) /\ NamesExist(c) /\ MetadataIsEarned(c)

(* A command past its wait has a Circle, or the metadata of one, to save. *)
SavesWhatExists ==
    \A p \in Commands :
        /\ pc[p] = "save" => p \in circles \/ Has(p, "no_wait")
        /\ pc[p] = "metadata" => Has(p, "bootstrap")

(* A command fills a wallet file nobody else can fill. *)
FillsItsOwn ==
    /\ \A p \in Commands : pc[p] = "fill" => wallets[output[p]] # "absent"
    /\ \A p, q \in Commands :
          pc[p] = "fill" /\ pc[q] = "fill" /\ output[p] = output[q] => p = q

(* The unasked first write of a restore goes to a Circle whose metadata a  *)
(* command has saved, and to a program that asks for the owner's key.      *)
FirstWriteIsOwned ==
    \A p \in Commands : pc[p] = "first" =>
        /\ Earned(input[p].circle)
        /\ \/ program[input[p].circle] = "personalized"
           \/ \E q \in Commands : Has(q, "allow_unconfigured")

(* An update that takes the owner's key from a program was allowed to. *)
UpdatesAsLearnt ==
    \A p \in Commands :
        /\ pc[p] = "start" => p \notin updates
        /\ pc[p] = "update" \/ p \in updates =>
              Code(p) = "personalized" \/ Has(p, "allow_unconfigured")

(* Wherever any command stops, the config file is whole, its default       *)
(* database is one of its databases, its wallet is a whole wallet file,    *)
(* a name saved by new is that of a Circle that exists, and a restore      *)
(* writes to a program without asking it only after a deployment for the   *)
(* owner.                                                                  *)
WorkspaceInv ==
    /\ WorkspaceTypeOK
    /\ Sound(config) /\ \A p \in Commands : Sound(copy[p])
    /\ SavesWhatExists /\ FillsItsOwn /\ FirstWriteIsOwned /\ UpdatesAsLearnt

(* The entries of the config a command is about. *)
ItsNames(p) == IF input[p].kind \in {"set", "remove", "new"} THEN {input[p].name} ELSE {}
ItsKeys(p, c) ==
    IF input[p].kind \in {"deploy", "upgrade"} THEN MetadataKeys(c, input[p].circle) ELSE ItsNames(p)

ChangesItsOwn(p, from, to) ==
    /\ \A n \in Names \ ItsNames(p) : to.databases[n] = from.databases[n]
    /\ \A k \in (Names \cup Circles) \ ItsKeys(p, from) : to.metadata[k] = from.metadata[k]
    /\ to.default # from.default =>
          /\ input[p].kind \in {"set", "remove", "new", "default"}
          /\ input[p].name \in {from.default, to.default}
    /\ to.wallet # from.wallet => input[p].kind \in {"attach", "import", "setup", "new"}

(* A command that writes the config changes nothing but the entries it is  *)
(* about, and new never takes a name that is saved, unless another command *)
(* has replaced the file since it was loaded: that is the only way for an  *)
(* update to be lost.                                                      *)
LostOnlyByOverlap ==
    [][\A p \in Commands :
          pc[p] = "rename" /\ config' # config =>
              \/ overlap[p] \/ pc'[p] = pc[p]
              \/ /\ ChangesItsOwn(p, config, config')
                 /\ Is(p, "new") /\ then[p] = "initialize" =>
                       config.databases[input[p].name] = None]_vars

(* A key in a wallet file is never lost, except to an import with --force: *)
(* not by two commands that store a wallet under one path at once, and not *)
(* by one that stops.                                                      *)
KeysAreKept ==
    [][\A path \in Paths : Usable(path) =>
          \/ wallets'[path] = wallets[path]
          \/ \E p \in Commands : wallets'[path] = p /\ Has(p, "force")]_vars

(* A program that asks for the owner's key is never replaced by one that    *)
(* does not, however late an update is executed and whatever was deployed  *)
(* meanwhile, unless a command was told to allow it and had not learnt     *)
(* that the program is personalized.                                       *)
ProtectionIsKept ==
    [][\A c \in Found : program[c] = "personalized" /\ program'[c] = "raw" =>
          \E p \in updates \ updates' :
              input[p].circle = c /\ Has(p, "allow_unconfigured") /\ auth[p] # "configured"]_vars

(* Every command ends, whatever the chain does.                            *)
CommandsEnd == \A p \in Commands : <>(pc[p] \in Ended)

=============================================================================
