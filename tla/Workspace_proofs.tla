-------------------------- MODULE Workspace_proofs --------------------------
(***************************************************************************)
(* Proofs about the local workspace, for any number of commands, names,    *)
(* Circles and wallet files: WorkspaceInv is inductive, no stored key is   *)
(* lost, and no program gives up the owner's key unasked.  Most steps only *)
(* move one command on with a copy of the config that is sound; the lemma  *)
(* QuietStep covers them.                                                  *)
(***************************************************************************)
EXTENDS Workspace, TLAPS

Afterwards == {"done", "finish", "create", "initialize"}

(* Command p goes to a place with a sound copy, and changes no wallet, no   *)
(* Circle and no program; the config file it may replace by its copy.      *)
Quiet(p, where, c) ==
    /\ UNCHANGED <<input, wallets, circles, program>> /\ config' \in {config, copy[p]}
    /\ where \in Places \ {"start", "fill"} /\ pc' = [pc EXCEPT ![p] = where]
    /\ c \in Config /\ Sound(c) /\ copy' = [copy EXCEPT ![p] = c]
    /\ where = "save" => p \in circles \/ Has(p, "no_wait")
    /\ where = "metadata" => Has(p, "bootstrap")
    /\ where = "first" => Earned(input[p].circle) /\ program[input[p].circle] = "personalized"
    /\ output' \in [Commands -> Paths] /\ \A q \in Commands \ {p} : output'[q] = output[q]
    /\ then' \in [Commands -> Afterwards]
    /\ overlap' \in [Commands -> BOOLEAN]
    /\ deployed' \subseteq Commands
    /\ updates' \in {updates, updates \cup {p}}
    /\ auth' \in [Commands -> Answers] /\ \A q \in Commands \ {p} : auth'[q] = auth[q]
    /\ where = "update" \/ p \in updates' =>
          Code(p)' = "personalized" \/ Has(p, "allow_unconfigured")

LEMMA QuietStep ==
    ASSUME WorkspaceInv, NEW p \in Commands, NEW where, NEW c, Quiet(p, where, c)
    PROVE  WorkspaceInv'
<1> USE DEF WorkspaceInv, Quiet, files
<1>1. WorkspaceTypeOK'
    <2>1. pc' \in [Commands -> Places] /\ copy' \in [Commands -> Config]
        BY DEF WorkspaceTypeOK
    <2> QED
        BY <2>1 DEF WorkspaceTypeOK, Afterwards
<1>2. \A q \in Commands \ {p} : pc'[q] = pc[q] /\ copy'[q] = copy[q]
    BY DEF WorkspaceTypeOK
<1>3. pc'[p] = where /\ copy'[p] = c
    BY DEF WorkspaceTypeOK
<1>4. Sound(config)' /\ \A q \in Commands : Sound(copy[q])'
    <2>1. Sound(config)'
        BY DEF Sound, DefaultIsSaved, WalletIsThere, Usable, NamesExist, MetadataIsEarned,
               Earned, Has, Is
    <2>2. Sound(copy[p])'
        BY <1>3 DEF Sound, DefaultIsSaved, WalletIsThere, Usable, NamesExist,
                    MetadataIsEarned, Earned, Has, Is
    <2>3. ASSUME NEW q \in Commands \ {p} PROVE Sound(copy[q])'
        BY <1>2 DEF Sound, DefaultIsSaved, WalletIsThere, Usable, NamesExist,
                    MetadataIsEarned, Earned, Has, Is
    <2> QED
        BY <2>1, <2>2, <2>3
<1>5. SavesWhatExists'
    BY <1>2, <1>3 DEF SavesWhatExists, Has
<1>6. FillsItsOwn'
    BY <1>2, <1>3 DEF FillsItsOwn
<1>7. FirstWriteIsOwned'
    BY <1>2, <1>3 DEF FirstWriteIsOwned, Earned, Has, Is
<1>8. UpdatesAsLearnt'
    BY <1>2, <1>3 DEF UpdatesAsLearnt, Has, Code
<1> QED
    BY <1>1, <1>4, <1>5, <1>6, <1>7, <1>8

(* Quiet steps that need nothing special of the place they go to.          *)
Moves(p, where, c) ==
    /\ UNCHANGED <<input, programs, files, chain>>
    /\ where \in Ended \cup {"wallet", "finish", "create", "confirm", "initialize", "watch",
                             "write", "rename"}
    /\ pc' = [pc EXCEPT ![p] = where]
    /\ c \in Config /\ Sound(c) /\ copy' = [copy EXCEPT ![p] = c]
    /\ output' \in [Commands -> Paths] /\ \A q \in Commands \ {p} : output'[q] = output[q]
    /\ then' \in [Commands -> Afterwards]
    /\ overlap' \in [Commands -> BOOLEAN]

LEMMA MoveStep ==
    ASSUME WorkspaceInv, NEW p \in Commands, NEW where, NEW c, Moves(p, where, c)
    PROVE  WorkspaceInv'
<1>1. Quiet(p, where, c)
    BY DEF Moves, Quiet, Places, Ended, WorkspaceInv, WorkspaceTypeOK, UpdatesAsLearnt, Code,
           Has, programs, files, chain
<1> QED
    BY <1>1, QuietStep

(* What holds of the configs at hand, and of what a command is about.      *)
LEMMA AtHand ==
    ASSUME WorkspaceInv, NEW p \in Commands
    PROVE  /\ config \in Config /\ Sound(config)
           /\ copy[p] \in Config /\ Sound(copy[p])
           /\ copy = [copy EXCEPT ![p] = copy[p]]
           /\ pc[p] \in Places
           /\ output \in [Commands -> Paths] /\ then \in [Commands -> Afterwards]
           /\ overlap \in [Commands -> BOOLEAN]
           /\ input[p].name \in Names /\ input[p].circle \in Found
           /\ input[p].path \in Paths \cup {None}
           /\ None \notin Names \cup Circles \cup Paths /\ Found \cap Commands = {}
    BY WorkspaceAssumption DEF WorkspaceInv, WorkspaceTypeOK, Afterwards

LEMMA LoadStep ==
    ASSUME WorkspaceInv, NEW p \in Commands, NEW where, NEW c, Load(p, c, where),
           UNCHANGED <<input, programs, files, chain>>,
           where \in {"write", "wallet", "finish", "create"}, c \in Config, Sound(c),
           output' \in [Commands -> Paths], \A q \in Commands \ {p} : output'[q] = output[q],
           then' \in [Commands -> Afterwards]
    PROVE  WorkspaceInv'
<1>1. Moves(p, where, c)
    BY AtHand DEF Load, Goto, Moves
<1> QED
    BY <1>1, MoveStep

LEMMA FailStep ==
    ASSUME WorkspaceInv, NEW p \in Commands, Fails(p),
           UNCHANGED <<input, programs, files, chain>>, output' = output,
           then' \in [Commands -> Afterwards]
    PROVE  WorkspaceInv'
<1>1. Moves(p, "failed", copy[p])
    BY AtHand DEF Fails, Goto, Moves, Ended
<1> QED
    BY <1>1, MoveStep

-----------------------------------------------------------------------------
(* The commands of database and save_database_metadata load the config and *)
(* change their entries of it.                                             *)
LEMMA DatabaseStep ==
    ASSUME WorkspaceInv, NEW p \in Commands,
           SetDatabase(p) \/ SetDefault(p) \/ RemoveDatabase(p) \/ SaveMetadata(p)
    PROVE  WorkspaceInv'
<1> DEFINE name == input[p].name
           circle == input[p].circle
<1> USE AtHand
<1>1. CASE SetDatabase(p)
    <2> DEFINE c == [config EXCEPT !.databases[name] = circle,
                                   !.default = IF @ = None THEN name ELSE @]
    <2>1. c \in Config
        BY DEF Config, Circles
    <2>2. Sound(c)
        BY DEF Config, Circles, Sound, DefaultIsSaved, WalletIsThere, NamesExist, MetadataIsEarned
    <2>3. Load(p, c, "write") /\ UNCHANGED <<input, programs, files, chain, output, then>>
        BY <1>1 DEF SetDatabase
    <2> QED
        BY <2>1, <2>2, <2>3, LoadStep
<1>2. CASE SetDefault(p)
    <2>0. UNCHANGED <<input, programs, files, chain, output, then>>
        BY <1>2 DEF SetDefault
    <2>1. CASE config.databases[name] = None
        BY <1>2, <2>0, <2>1, FailStep DEF SetDefault
    <2>2. CASE config.databases[name] # None
        <3> DEFINE c == [config EXCEPT !.default = name]
        <3>1. c \in Config
            BY DEF Config
        <3>2. Sound(c)
            BY <2>2 DEF Config, Sound, DefaultIsSaved, WalletIsThere, NamesExist, MetadataIsEarned
        <3>3. Load(p, c, "write")
            BY <1>2, <2>2 DEF SetDefault
        <3> QED
            BY <2>0, <3>1, <3>2, <3>3, LoadStep
    <2> QED
        BY <2>1, <2>2
<1>3. CASE RemoveDatabase(p)
    <2> DEFINE c == [config EXCEPT !.databases[name] = None, !.metadata[name] = None,
                                   !.default = IF @ = name THEN None ELSE @]
    <2>1. c \in Config
        BY DEF Config
    <2>2. Sound(c)
        BY DEF Config, Circles, Sound, DefaultIsSaved, WalletIsThere, NamesExist, MetadataIsEarned
    <2>3. Load(p, c, "write") /\ UNCHANGED <<input, programs, files, chain, output, then>>
        BY <1>3 DEF RemoveDatabase
    <2> QED
        BY <2>1, <2>2, <2>3, LoadStep
<1>4. CASE SaveMetadata(p)
    <2> DEFINE c == [config EXCEPT !.metadata =
                        [k \in DOMAIN @ |-> IF k \in MetadataKeys(config, circle)
                                            THEN circle ELSE @[k]]]
    <2>1. c \in Config
        BY DEF Config, Circles
    <2>2. Earned(circle)
        BY <1>4 DEF SaveMetadata, Starts, Earned, WorkspaceInv, SavesWhatExists
    <2>3. Sound(c)
        BY <2>2 DEF Config, Sound, DefaultIsSaved, WalletIsThere, NamesExist, MetadataIsEarned
    <2>4. Load(p, c, "write") /\ UNCHANGED <<input, programs, files, chain, output, then>>
        BY <1>4 DEF SaveMetadata
    <2> QED
        BY <2>1, <2>3, <2>4, LoadStep
<1> QED
    BY <1>1, <1>2, <1>3, <1>4

(* A wallet file that is usable may be named by a config.                  *)
LEMMA NamingAWallet ==
    ASSUME WorkspaceInv, NEW c \in Config, Sound(c), NEW path \in Paths, Usable(path)
    PROVE  /\ [c EXCEPT !.wallet = path] \in Config
           /\ Sound([c EXCEPT !.wallet = path])
BY DEF Config, Sound, DefaultIsSaved, WalletIsThere, NamesExist, MetadataIsEarned

LEMMA FoundIsAPath == ASSUME WorkspaceInv PROVE FoundWallet(config) \in Paths \cup {None}
BY WorkspaceAssumption DEF FoundWallet, WorkspaceInv, WorkspaceTypeOK, Config

(* What a command does where no wallet is found.                           *)
LEMMA PromptStep ==
    ASSUME WorkspaceInv, NEW p \in Commands, NEW next \in {"finish", "create"},
           UNCHANGED <<input, programs, files, chain>>,
           \/ Prompt(p, Load(p, config, "finish"), next)
           \/ Prompt(p, Fails(p), next)
    PROVE  WorkspaceInv'
<1> USE AtHand
<1>1. then' \in [Commands -> Afterwards]
    BY DEF Prompt, Afterwards
<1>2. CASE /\ input[p].path # None
           /\ IF Usable(input[p].path)
              THEN Load(p, [config EXCEPT !.wallet = input[p].path], "write")
              ELSE Fails(p)
           /\ UNCHANGED output
    <2>1. CASE Usable(input[p].path)
        BY <1>1, <1>2, <2>1, NamingAWallet, LoadStep
    <2>2. CASE ~Usable(input[p].path)
        BY <1>1, <1>2, <2>2, FailStep
    <2> QED
        BY <2>1, <2>2
<1>3. CASE /\ input[p].path = None
           /\ Load(p, config, "wallet")
           /\ output' = [output EXCEPT ![p] = DefaultPath]
    BY <1>1, <1>3, LoadStep, WorkspaceAssumption
<1>4. CASE Load(p, config, "finish") /\ UNCHANGED output
    BY <1>1, <1>4, LoadStep
<1>5. CASE Fails(p) /\ UNCHANGED output
    BY <1>1, <1>5, FailStep
<1> QED
    BY <1>2, <1>3, <1>4, <1>5 DEF Prompt

LEMMA StartStep ==
    ASSUME WorkspaceInv, NEW p \in Commands,
           AttachWallet(p) \/ StartImport(p) \/ StartSetup(p) \/ StartNew(p)
    PROVE  WorkspaceInv'
<1> USE AtHand
<1>1. CASE AttachWallet(p)
    <2>1. UNCHANGED <<input, programs, files, chain, output, then>>
        BY <1>1 DEF AttachWallet
    <2>2. CASE Usable(input[p].path)
        <3>1. input[p].path \in Paths
            BY <1>1, WorkspaceAssumption DEF AttachWallet, Starts, Is, WorkspaceInv, WorkspaceTypeOK
        <3>2. Load(p, [config EXCEPT !.wallet = input[p].path], "write")
            BY <1>1, <2>2 DEF AttachWallet
        <3> QED
            BY <2>1, <2>2, <3>1, <3>2, NamingAWallet, LoadStep
    <2>3. CASE ~Usable(input[p].path)
        BY <1>1, <2>1, <2>3, FailStep DEF AttachWallet
    <2> QED
        BY <2>2, <2>3
<1>2. CASE StartImport(p)
    <2>1. config.wallet \in Paths \cup {None} /\ DefaultPath \in Paths
        BY WorkspaceAssumption DEF Config
    <2>2. /\ output' \in [Commands -> Paths]
          /\ \A q \in Commands \ {p} : output'[q] = output[q]
        BY <1>2, <2>1 DEF StartImport
    <2>3. Load(p, config, "wallet") /\ UNCHANGED <<input, programs, files, chain, then>>
        BY <1>2 DEF StartImport
    <2> QED
        BY <2>2, <2>3, LoadStep
<1>3. CASE StartSetup(p)
    <2> DEFINE wallet == IF Has(p, "wallet") THEN input[p].path ELSE FoundWallet(config)
    <2>1. wallet \in Paths \cup {None}
        BY FoundIsAPath
    <2>2. UNCHANGED <<input, programs, files, chain>>
        BY <1>3 DEF StartSetup
    <2>3. CASE wallet # None /\ Usable(wallet)
        <3>1. Load(p, [config EXCEPT !.wallet = wallet], "write") /\ UNCHANGED <<output, then>>
            BY <1>3, <2>3 DEF StartSetup
        <3> QED
            BY <2>1, <2>2, <2>3, <3>1, NamingAWallet, LoadStep
    <2>4. CASE wallet # None /\ ~Usable(wallet)
        BY <1>3, <2>2, <2>4, FailStep DEF StartSetup
    <2>5. CASE wallet = None
        <3>1. \/ Prompt(p, Load(p, config, "finish"), "finish")
              \/ Load(p, config, "finish") /\ UNCHANGED <<output, then>>
            BY <1>3, <2>5 DEF StartSetup
        <3> QED
            BY <2>2, <3>1, PromptStep, LoadStep
    <2> QED
        BY <2>3, <2>4, <2>5
<1>4. CASE StartNew(p)
    <2>1. UNCHANGED <<input, programs, files, chain>>
        BY <1>4 DEF StartNew
    <2>2. \/ Fails(p) /\ UNCHANGED <<output, then>>
          \/ Load(p, config, "create") /\ UNCHANGED <<output, then>>
          \/ Prompt(p, Fails(p), "create")
        BY <1>4 DEF StartNew
    <2> QED
        BY <2>1, <2>2, FailStep, LoadStep, PromptStep
<1> QED
    BY <1>1, <1>2, <1>3, <1>4

-----------------------------------------------------------------------------
(* A step that leaves the copy alone. *)
LEMMA PlainStep ==
    ASSUME WorkspaceInv, NEW p \in Commands, NEW where, Goto(p, where),
           where \in Ended \cup {"confirm", "initialize", "watch", "write", "rename"},
           UNCHANGED <<input, programs, files, chain, copy, output, overlap>>,
           then' \in [Commands -> Afterwards]
    PROVE  WorkspaceInv'
<1>1. Moves(p, where, copy[p])
    BY AtHand DEF Goto, Moves
<1> QED
    BY <1>1, MoveStep

(* The steps of new, and those that write the temporary file.              *)
LEMMA NewStep ==
    ASSUME WorkspaceInv, NEW p \in Commands,
           \/ FinishSetup(p) \/ SubmitDeploy(p) \/ ConfirmDeploy(p) \/ SaveName(p)
           \/ FinishNew(p) \/ WriteTemporary(p) \/ Stop(p) \/ WriteFirst(p)
    PROVE  WorkspaceInv'
<1> USE AtHand
<1>1. CASE FinishSetup(p) \/ FinishNew(p) \/ WriteTemporary(p) \/ Stop(p) \/ WriteFirst(p)
    <2>1. PICK where \in Ended \cup {"write", "rename"} : Goto(p, where)
        BY <1>1 DEF FinishSetup, FinishNew, WriteTemporary, Stop, WriteFirst, Ended
    <2>2. /\ UNCHANGED <<input, programs, files, chain, copy, output, overlap>>
          /\ then' \in [Commands -> Afterwards]
        BY <1>1 DEF FinishSetup, FinishNew, WriteTemporary, Stop, WriteFirst, Afterwards
    <2> QED
        BY <2>1, <2>2, PlainStep
<1>2. CASE SubmitDeploy(p)
    <2>1. PICK where \in {"failed", "save", "confirm"} :
              Goto(p, where) /\ (where = "save" => Has(p, "no_wait"))
        BY <1>2 DEF SubmitDeploy
    <2>2. /\ UNCHANGED <<input, programs, files, circles, copy, output, then, overlap>>
          /\ deployed' \subseteq Commands
        BY <1>2 DEF SubmitDeploy, WorkspaceInv, WorkspaceTypeOK
    <2>3. Quiet(p, where, copy[p])
        BY <2>1, <2>2 DEF Goto, Quiet, Places, Ended, programs, files, WorkspaceInv,
                          WorkspaceTypeOK, UpdatesAsLearnt, Code, Has
    <2> QED
        BY <2>3, QuietStep
<1>3. CASE ConfirmDeploy(p)
    <2>1. PICK where \in {"failed", "save"} : Goto(p, where) /\ (where = "save" => p \in circles)
        BY <1>3 DEF ConfirmDeploy
    <2>2. Quiet(p, where, copy[p])
        BY <1>3, <2>1 DEF ConfirmDeploy, Goto, Quiet, Places, Ended, programs, files,
                          chain, WorkspaceInv, WorkspaceTypeOK, UpdatesAsLearnt, Code, Has
    <2> QED
        BY <2>2, QuietStep
<1>4. CASE SaveName(p)
    <2>1. CASE Has(p, "no_name")
        BY <1>4, <2>1, PlainStep DEF SaveName
    <2>2. CASE ~Has(p, "no_name")
        <3> DEFINE c == Naming(p, copy[p])
        <3>1. c \in Config
            BY DEF Naming, Config, Circles
        <3>2. p \in circles \/ Has(p, "no_wait")
            BY <1>4 DEF SaveName, WorkspaceInv, SavesWhatExists
        <3>3. Sound(c)
            BY <3>2 DEF Naming, Config, Circles, Sound, DefaultIsSaved, WalletIsThere,
                        NamesExist, MetadataIsEarned
        <3>4. copy' = [copy EXCEPT ![p] = c]
            BY <1>4, <2>2 DEF SaveName
        <3>5. Moves(p, "write", c)
            BY <1>4, <2>2, <3>1, <3>3, <3>4 DEF SaveName, Goto, Moves, Afterwards
        <3> QED
            BY <3>5, MoveStep
    <2> QED
        BY <2>1, <2>2
<1> QED
    BY <1>1, <1>2, <1>3, <1>4

(* The steps of deploy and of a restore with --bootstrap-owner.            *)
LEMMA DeployStep ==
    ASSUME WorkspaceInv, NEW p \in Commands,
           StartDeploy(p) \/ SubmitUpdate(p) \/ ConfirmUpdate(p) \/ ResolveBootstrap(p)
    PROVE  WorkspaceInv'
<1> USE AtHand
<1> USE DEF Goto, Quiet, Places, Ended, programs, files, chain, WorkspaceInv, WorkspaceTypeOK
<1>1. CASE StartDeploy(p)
    <2>1. CASE Goto(p, "failed") /\ UNCHANGED auth
        <3>1. Quiet(p, "failed", copy[p])
            BY <1>1, <2>1 DEF StartDeploy, UpdatesAsLearnt, Code, Has
        <3> QED
            BY <3>1, QuietStep
    <2>2. ASSUME NEW a \in Learnt(p), auth' = [auth EXCEPT ![p] = a], Goto(p, "update")
          PROVE  WorkspaceInv'
        <3>1. /\ a \in Answers
              /\ a \in {"owned", "configured"} \/ Has(p, "allow_unconfigured")
            BY DEF Learnt, Answers
        <3>2. auth'[p] = a /\ auth' \in [Commands -> Answers]
            BY <2>2, <3>1
        <3>3. Code(p)' = "personalized" \/ Has(p, "allow_unconfigured")
            BY <3>1, <3>2 DEF Code
        <3>4. Quiet(p, "update", copy[p])
            BY <1>1, <2>2, <3>2, <3>3 DEF StartDeploy
        <3> QED
            BY <3>4, QuietStep
    <2> QED
        BY <1>1, <2>1, <2>2 DEF StartDeploy
<1>2. CASE SubmitUpdate(p)
    <2>1. PICK where \in {"failed", "done", "watch"} : Goto(p, where)
        BY <1>2 DEF SubmitUpdate
    <2>2. /\ updates' \in {updates, updates \cup {p}}
          /\ Code(p)' = "personalized" \/ Has(p, "allow_unconfigured")
        BY <1>2 DEF SubmitUpdate, UpdatesAsLearnt, Code
    <2>3. Quiet(p, where, copy[p])
        BY <1>2, <2>1, <2>2 DEF SubmitUpdate
    <2> QED
        BY <2>3, QuietStep
<1>3. CASE ConfirmUpdate(p)
    <2>1. PICK where \in {"failed", "done", "metadata"} :
              Goto(p, where) /\ (where = "metadata" => Has(p, "bootstrap"))
        BY <1>3 DEF ConfirmUpdate
    <2>2. Quiet(p, where, copy[p])
        BY <1>3, <2>1 DEF ConfirmUpdate, UpdatesAsLearnt, Code, Has
    <2> QED
        BY <2>2, QuietStep
<1>4. CASE ResolveBootstrap(p)
    <2>1. PICK where \in {"failed", "done", "first"} :
              /\ Goto(p, where)
              /\ where = "first" =>
                    /\ \E k \in Names \cup Circles : config.metadata[k] = input[p].circle
                    /\ program[input[p].circle] = "personalized"
        BY <1>4 DEF ResolveBootstrap
    <2>2. where = "first" => Earned(input[p].circle)
        BY <2>1 DEF Sound, MetadataIsEarned
    <2>3. Quiet(p, where, copy[p])
        BY <1>4, <2>1, <2>2 DEF ResolveBootstrap, UpdatesAsLearnt, Code, Has
    <2> QED
        BY <2>3, QuietStep
<1> QED
    BY <1>1, <1>2, <1>3, <1>4

-----------------------------------------------------------------------------
(* A config stays sound as long as every whole wallet stays whole.         *)
LEMMA SoundStays ==
    ASSUME WorkspaceInv, NEW c \in Config, Sound(c), UNCHANGED <<input, circles>>,
           \A path \in Paths : Usable(path) => Usable(path)'
    PROVE  Sound(c)'
BY WorkspaceAssumption DEF Sound, DefaultIsSaved, WalletIsThere, NamesExist, MetadataIsEarned,
   Earned, Has, Is, Config

(* A step on a wallet file leaves every whole wallet whole.                *)
LEMMA WalletStep ==
    ASSUME WorkspaceInv, NEW p \in Commands, NEW where, NEW c,
           UNCHANGED <<input, programs, config, chain, output, then, overlap>>,
           wallets' \in [Paths -> Keys \cup {"absent", "partial"}],
           \A path \in Paths : Usable(path) => Usable(path)',
           where \in {"done", "failed", "write", "fill"}, pc' = [pc EXCEPT ![p] = where],
           c \in Config, Sound(c)', copy' = [copy EXCEPT ![p] = c],
           FillsItsOwn'
    PROVE  WorkspaceInv'
<1> USE DEF WorkspaceInv, programs, chain
<1>1. WorkspaceTypeOK'
    <2>1. pc' \in [Commands -> Places] /\ copy' \in [Commands -> Config]
        BY DEF WorkspaceTypeOK, Places, Ended
    <2> QED
        BY <2>1 DEF WorkspaceTypeOK
<1>2. \A q \in Commands \ {p} : pc'[q] = pc[q] /\ copy'[q] = copy[q]
    BY DEF WorkspaceTypeOK
<1>3. pc'[p] = where /\ copy'[p] = c
    BY DEF WorkspaceTypeOK
<1>4. Sound(config)'
    <2>1. PICK d : d = config
        OBVIOUS
    <2>2. Sound(d)'
        BY <2>1, SoundStays DEF WorkspaceTypeOK
    <2> QED
        BY <2>1, <2>2 DEF Sound, DefaultIsSaved, WalletIsThere, Usable, NamesExist,
                          MetadataIsEarned, Earned, Has, Is
<1>5. ASSUME NEW q \in Commands PROVE Sound(copy[q])'
    <2>1. PICK d : d = copy'[q]
        OBVIOUS
    <2>2. Sound(d)'
        BY <1>2, <1>3, <2>1, SoundStays DEF WorkspaceTypeOK
    <2> QED
        BY <2>1, <2>2 DEF Sound, DefaultIsSaved, WalletIsThere, Usable, NamesExist,
                          MetadataIsEarned, Earned, Has, Is
<1>6. SavesWhatExists'
    BY <1>2, <1>3 DEF SavesWhatExists, Has
<1>7. FirstWriteIsOwned'
    BY <1>2, <1>3 DEF FirstWriteIsOwned, Earned, Has, Is
<1>8. UpdatesAsLearnt'
    BY <1>2, <1>3 DEF UpdatesAsLearnt, Has, Code
<1> QED
    BY <1>1, <1>4, <1>5, <1>6, <1>7, <1>8

(* A command that has stored a wallet names it in its copy, or ends.       *)
LEMMA UsingAWallet ==
    ASSUME WorkspaceInv, NEW p \in Commands, UseWallet(p), UNCHANGED <<input, circles, output>>,
           \A path \in Paths : Usable(path) => Usable(path)', Usable(output[p])'
    PROVE  \E where \in {"done", "write"}, c \in Config :
              pc' = [pc EXCEPT ![p] = where] /\ Sound(c)' /\ copy' = [copy EXCEPT ![p] = c]
<1>1. PICK c \in Config : c = copy[p] /\ Sound(c)'
    BY AtHand, SoundStays
<1>2. CASE Has(p, "no_use")
    BY <1>1, <1>2, AtHand DEF UseWallet, Goto
<1>3. CASE ~Has(p, "no_use")
    <2> DEFINE path == output[p]
    <2>1. PICK d : d = [c EXCEPT !.wallet = output[p]]
        OBVIOUS
    <2>2. d \in Config /\ copy' = [copy EXCEPT ![p] = d]
        BY <1>1, <1>3, <2>1, AtHand DEF UseWallet, Config
    <2>3. d.wallet = output[p] /\ d.databases = c.databases /\ d.default = c.default
          /\ d.metadata = c.metadata
        BY <2>1 DEF Config
    <2>4. WalletIsThere(d)'
        BY <2>3 DEF WalletIsThere, Usable
    <2>5. Sound(d)'
        BY <1>1, <2>3, <2>4 DEF Sound, DefaultIsSaved, NamesExist, MetadataIsEarned
    <2> QED
        BY <1>3, <2>2, <2>5 DEF UseWallet, Goto
<1> QED
    BY <1>2, <1>3

LEMMA WalletsStep ==
    ASSUME WorkspaceInv, NEW p \in Commands,
           CreateWallet(p) \/ FillWallet(p) \/ ReplaceWallet(p)
    PROVE  WorkspaceInv'
<1> USE AtHand
<1> DEFINE path == output[p]
<1>0. /\ UNCHANGED <<input, programs, config, chain, output, then, overlap>>
      /\ wallets \in [Paths -> Keys \cup {"absent", "partial"}]
      /\ path \in Paths /\ Keys \cap {"absent", "partial"} = {} /\ p \in Keys
    BY WorkspaceAssumption DEF CreateWallet, FillWallet, ReplaceWallet, WorkspaceInv,
       WorkspaceTypeOK, Keys
<1>1. CASE CreateWallet(p)
    <2>1. CASE wallets[path] = "absent"
        <3>1. wallets' = [wallets EXCEPT ![path] = "partial"] /\ pc' = [pc EXCEPT ![p] = "fill"]
              /\ copy' = copy
            BY <1>1, <2>1 DEF CreateWallet, Goto
        <3>2. \A other \in Paths : Usable(other) => Usable(other)'
            BY <1>0, <2>1, <3>1 DEF Usable
        <3>3. FillsItsOwn'
            BY <1>0, <2>1, <3>1 DEF FillsItsOwn, WorkspaceInv, WorkspaceTypeOK
        <3>4. PICK c \in Config : c = copy[p] /\ Sound(c)'
            BY <1>0, <3>2, SoundStays DEF chain
        <3> QED
            BY <1>0, <3>1, <3>2, <3>3, <3>4, WalletStep
    <2>2. CASE wallets[path] # "absent"
        BY <1>1, <2>2, PlainStep DEF CreateWallet, Ended, files
    <2> QED
        BY <2>1, <2>2
<1>2. CASE FillWallet(p)
    <2>1. CASE Goto(p, "failed") /\ UNCHANGED <<wallets, copy>>
        BY <1>0, <2>1, PlainStep DEF Ended, files
    <2>2. CASE /\ wallets' = [wallets EXCEPT ![path] = IF @ = "partial" THEN p ELSE @]
               /\ UseWallet(p)
        <3>1. wallets[path] # "absent"
            BY <1>2 DEF FillWallet, FillsItsOwn, WorkspaceInv
        <3>2. (\A other \in Paths : Usable(other) => Usable(other)') /\ Usable(output[p])'
            BY <1>0, <2>2, <3>1 DEF Usable
        <3>3. PICK where \in {"done", "write"}, c \in Config :
                  pc' = [pc EXCEPT ![p] = where] /\ Sound(c)' /\ copy' = [copy EXCEPT ![p] = c]
            BY <1>0, <2>2, <3>2, UsingAWallet DEF chain
        <3>4. FillsItsOwn'
            BY <1>0, <2>2, <3>1, <3>3 DEF FillsItsOwn, WorkspaceInv, WorkspaceTypeOK
        <3>5. wallets' \in [Paths -> Keys \cup {"absent", "partial"}]
            BY <1>0, <2>2
        <3> QED
            BY <1>0, <3>2, <3>3, <3>4, <3>5, WalletStep
    <2> QED
        BY <1>2, <2>1, <2>2 DEF FillWallet
<1>3. CASE ReplaceWallet(p)
    <2>1. wallets' = [wallets EXCEPT ![path] = p] /\ UseWallet(p)
        BY <1>3 DEF ReplaceWallet
    <2>2. (\A other \in Paths : Usable(other) => Usable(other)') /\ Usable(output[p])'
        BY <1>0, <2>1 DEF Usable
    <2>3. PICK where \in {"done", "write"}, c \in Config :
              pc' = [pc EXCEPT ![p] = where] /\ Sound(c)' /\ copy' = [copy EXCEPT ![p] = c]
        BY <1>0, <2>1, <2>2, UsingAWallet DEF chain
    <2>4. FillsItsOwn'
        BY <1>0, <2>1, <2>3 DEF FillsItsOwn, WorkspaceInv, WorkspaceTypeOK
    <2>5. wallets' \in [Paths -> Keys \cup {"absent", "partial"}]
        BY <1>0, <2>1
    <2> QED
        BY <1>0, <2>2, <2>3, <2>4, <2>5, WalletStep
<1> QED
    BY <1>1, <1>2, <1>3

-----------------------------------------------------------------------------
(* The file is replaced by a copy that is sound.                           *)
LEMMA RenameStep ==
    ASSUME WorkspaceInv, NEW p \in Commands, Rename(p)
    PROVE  WorkspaceInv'
<1> USE AtHand
<1>1. overlap' \in [Commands -> BOOLEAN]
    BY DEF Rename
<1>2. then[p] \in Places \ {"start", "fill", "save", "metadata", "first", "update"}
    BY DEF Afterwards, Places, Ended
<1>3. Quiet(p, then[p], copy[p])
    BY <1>1, <1>2 DEF Rename, Quiet, Goto, programs, chain, WorkspaceInv, WorkspaceTypeOK,
                      UpdatesAsLearnt, Code, Has
<1> QED
    BY <1>3, QuietStep

(* The chain creates the Circle of a deploy, or replaces a program.        *)
LEMMA ChainStep ==
    ASSUME WorkspaceInv, NEW p \in Commands, ExecuteDeploy(p) \/ ExecuteUpdate(p)
    PROVE  WorkspaceInv'
<1> USE DEF WorkspaceInv, files, chain, programs
<1>1. CASE ExecuteDeploy(p)
    <2>1. /\ UNCHANGED <<input, programs, files, pc, copy, output, then, overlap>>
          /\ deployed' \subseteq Commands /\ circles \subseteq circles' /\ circles' \subseteq Circles
        BY <1>1 DEF ExecuteDeploy, WorkspaceTypeOK, Circles
    <2>2. WorkspaceTypeOK'
        BY <2>1 DEF WorkspaceTypeOK
    <2>3. Sound(config)' /\ \A q \in Commands : Sound(copy[q])'
        BY <2>1 DEF Sound, DefaultIsSaved, WalletIsThere, Usable, NamesExist, MetadataIsEarned,
                    Earned, Has, Is
    <2>4. SavesWhatExists' /\ FillsItsOwn' /\ FirstWriteIsOwned' /\ UpdatesAsLearnt'
        BY <2>1 DEF SavesWhatExists, FillsItsOwn, FirstWriteIsOwned, UpdatesAsLearnt, Earned,
                    Has, Is, Code
    <2> QED
        BY <2>2, <2>3, <2>4
<1>2. CASE ExecuteUpdate(p)
    <2>1. /\ UNCHANGED <<input, files, chain, auth, pc, copy, output, then, overlap>>
          /\ p \in updates /\ updates' = updates \ {p}
          /\ \/ program' = [program EXCEPT ![input[p].circle] = Code(p)]
             \/ program' = program
        BY <1>2 DEF ExecuteUpdate
    <2>2. WorkspaceTypeOK'
        BY <2>1 DEF WorkspaceTypeOK, Code, Programs
    <2>3. Sound(config)' /\ \A q \in Commands : Sound(copy[q])'
        BY <2>1 DEF Sound, DefaultIsSaved, WalletIsThere, Usable, NamesExist, MetadataIsEarned,
                    Earned, Has, Is
    <2>4. SavesWhatExists' /\ FillsItsOwn' /\ UpdatesAsLearnt'
        BY <2>1 DEF SavesWhatExists, FillsItsOwn, UpdatesAsLearnt, Has, Code
    <2>5. Code(p) = "personalized" \/ Has(p, "allow_unconfigured")
        BY <2>1 DEF UpdatesAsLearnt
    <2>6. FirstWriteIsOwned'
        <3>1. CASE Has(p, "allow_unconfigured")
            BY <2>1, <3>1 DEF FirstWriteIsOwned, Earned, Has, Is
        <3>2. CASE Code(p) = "personalized"
            <4>1. \A circle \in Found :
                      program[circle] = "personalized" => program'[circle] = "personalized"
                BY <2>1, <3>2 DEF WorkspaceTypeOK
            <4> QED
                BY <2>1, <4>1, AtHand DEF FirstWriteIsOwned, Earned, Has, Is
        <3> QED
            BY <2>5, <3>1, <3>2
    <2> QED
        BY <2>2, <2>3, <2>4, <2>6
<1> QED
    BY <1>1, <1>2

LEMMA StepKeepsWorkspaceInv == WorkspaceInv /\ [Next]_vars => WorkspaceInv'
<1> SUFFICES ASSUME WorkspaceInv, [Next]_vars PROVE WorkspaceInv'
    OBVIOUS
<1>1. CASE UNCHANGED vars
    BY <1>1 DEF vars, files, chain, programs, WorkspaceInv, WorkspaceTypeOK, Sound,
       DefaultIsSaved, WalletIsThere, Usable, NamesExist, MetadataIsEarned, Earned, Has, Is,
       SavesWhatExists, FillsItsOwn, FirstWriteIsOwned, UpdatesAsLearnt, Code
<1>2. ASSUME NEW p \in Commands, Step(p) PROVE WorkspaceInv'
    BY <1>2, DatabaseStep, StartStep, WalletsStep, NewStep, DeployStep, RenameStep DEF Step
<1>3. ASSUME NEW p \in Commands, Stop(p) \/ ExecuteDeploy(p) \/ ExecuteUpdate(p)
      PROVE  WorkspaceInv'
    BY <1>3, NewStep, ChainStep
<1> QED
    BY <1>1, <1>2, <1>3 DEF Next

(* The first config names nothing, and no command has done anything.       *)
LEMMA InitialWorkspaceInv == Init => WorkspaceInv
<1> SUFFICES ASSUME Init PROVE WorkspaceInv
    OBVIOUS
<1> USE WorkspaceAssumption DEF Init
<1>1. Defaults \in Config
    BY DEF Defaults, Config
<1>2. WorkspaceTypeOK
    BY <1>1 DEF WorkspaceTypeOK, Keys, Circles, Programs, Answers, Places, Ended
<1>3. Sound(Defaults)
    BY DEF Defaults, Sound, DefaultIsSaved, WalletIsThere, NamesExist, MetadataIsEarned, Circles
<1>4. SavesWhatExists /\ FillsItsOwn /\ FirstWriteIsOwned /\ UpdatesAsLearnt
    BY DEF SavesWhatExists, FillsItsOwn, FirstWriteIsOwned, UpdatesAsLearnt
<1> QED
    BY <1>2, <1>3, <1>4 DEF WorkspaceInv

(* The config file is whole and sound wherever any number of commands stop *)
(* in between: its default database is saved, its wallet is a whole file,  *)
(* a name that new has saved is that of a Circle, and no restore writes    *)
(* unasked but to a Circle that was deployed for its owner.                *)
THEOREM WorkspaceInvHolds == Spec => []WorkspaceInv
BY InitialWorkspaceInv, StepKeepsWorkspaceInv, PTL DEF Spec

-----------------------------------------------------------------------------
(* Only three steps write wallet files.                                    *)
LEMMA OtherStepsKeepWallets ==
    ASSUME NEW p \in Commands, Step(p) \/ Stop(p) \/ ExecuteDeploy(p) \/ ExecuteUpdate(p),
           ~CreateWallet(p), ~FillWallet(p), ~ReplaceWallet(p)
    PROVE  wallets' = wallets
<1> USE DEF files
<1>1. CASE \/ SetDatabase(p) \/ SetDefault(p) \/ RemoveDatabase(p) \/ SaveMetadata(p)
           \/ AttachWallet(p) \/ StartImport(p) \/ StartSetup(p) \/ FinishSetup(p)
    BY <1>1 DEF SetDatabase, SetDefault, RemoveDatabase, SaveMetadata, AttachWallet,
                StartImport, StartSetup, FinishSetup
<1>2. CASE \/ StartNew(p) \/ SubmitDeploy(p) \/ ConfirmDeploy(p) \/ SaveName(p)
           \/ FinishNew(p) \/ WriteTemporary(p) \/ Rename(p)
    BY <1>2 DEF StartNew, SubmitDeploy, ConfirmDeploy, SaveName, FinishNew, WriteTemporary, Rename
<1>3. CASE \/ StartDeploy(p) \/ SubmitUpdate(p) \/ ConfirmUpdate(p) \/ ResolveBootstrap(p)
           \/ WriteFirst(p) \/ Stop(p) \/ ExecuteDeploy(p) \/ ExecuteUpdate(p)
    BY <1>3 DEF StartDeploy, SubmitUpdate, ConfirmUpdate, ResolveBootstrap, WriteFirst, Stop,
                ExecuteDeploy, ExecuteUpdate
<1> QED
    BY <1>1, <1>2, <1>3 DEF Step

(* A key that a wallet file holds is never lost but to an import --force,  *)
(* whatever commands store wallets at once and wherever they stop.         *)
THEOREM KeysAlwaysKept == Spec => KeysAreKept
<1>1. WorkspaceInv /\ [Next]_vars =>
          \A path \in Paths : Usable(path) =>
              \/ wallets'[path] = wallets[path]
              \/ \E p \in Commands : wallets'[path] = p /\ Has(p, "force")
    <2> SUFFICES ASSUME WorkspaceInv, [Next]_vars, NEW path \in Paths, Usable(path),
                        wallets'[path] # wallets[path]
                 PROVE  \E p \in Commands : wallets'[path] = p /\ Has(p, "force")
        OBVIOUS
    <2>1. PICK p \in Commands : CreateWallet(p) \/ FillWallet(p) \/ ReplaceWallet(p)
        BY OtherStepsKeepWallets DEF Next, vars, files
    <2>2. /\ wallets \in [Paths -> Keys \cup {"absent", "partial"}] /\ output[p] \in Paths
          /\ wallets[path] \notin {"absent", "partial"}
        BY WorkspaceAssumption DEF WorkspaceInv, WorkspaceTypeOK, Usable
    <2>3. ~CreateWallet(p) /\ ~FillWallet(p)
        BY <2>2 DEF CreateWallet, FillWallet
    <2> QED
        BY <2>1, <2>2, <2>3 DEF ReplaceWallet
<1> QED
    BY <1>1, WorkspaceInvHolds, PTL DEF Spec, KeysAreKept

(* A personalized program is never replaced by a raw one unless a deploy   *)
(* was told to allow it and had not learnt that it is personalized.        *)
THEOREM ProtectionAlwaysKept == Spec => ProtectionIsKept
<1>1. WorkspaceInv /\ [Next]_vars =>
          \A c \in Found : program[c] = "personalized" /\ program'[c] = "raw" =>
              \E p \in updates \ updates' :
                  input[p].circle = c /\ Has(p, "allow_unconfigured") /\ auth[p] # "configured"
    <2> SUFFICES ASSUME WorkspaceInv, [Next]_vars, NEW c \in Found,
                        program[c] = "personalized", program'[c] = "raw"
                 PROVE  \E p \in updates \ updates' :
                            /\ input[p].circle = c /\ Has(p, "allow_unconfigured")
                            /\ auth[p] # "configured"
        OBVIOUS
    <2>1. PICK p \in Commands : ExecuteUpdate(p)
        <3>1. program' # program
            OBVIOUS
        <3>2. ASSUME NEW p \in Commands, Step(p) \/ Stop(p) \/ ExecuteDeploy(p)
              PROVE  program' = program
            BY <3>2 DEF Step, programs, SetDatabase, SetDefault, RemoveDatabase, SaveMetadata,
               AttachWallet, StartImport, StartSetup, FinishSetup, CreateWallet, FillWallet,
               ReplaceWallet, StartNew, SubmitDeploy, ConfirmDeploy, SaveName, FinishNew,
               StartDeploy, SubmitUpdate, ConfirmUpdate, ResolveBootstrap, WriteFirst,
               WriteTemporary, Rename, Stop, ExecuteDeploy
        <3> QED
            BY <3>1, <3>2 DEF Next, vars, programs
    <2>2. input[p].circle = c /\ Code(p) = "raw" /\ p \in updates \ updates'
        BY <2>1 DEF ExecuteUpdate, WorkspaceInv, WorkspaceTypeOK
    <2>3. Has(p, "allow_unconfigured") /\ auth[p] # "configured"
        BY <2>2 DEF WorkspaceInv, UpdatesAsLearnt, Code
    <2> QED
        BY <2>2, <2>3
<1> QED
    BY <1>1, WorkspaceInvHolds, PTL DEF Spec, ProtectionIsKept

-----------------------------------------------------------------------------
(* What holds of a command at a place with a copy c, if o is whether the    *)
(* file has been replaced since it was loaded and t is where the command   *)
(* goes once it has written.  Without an overlap the copy is the file, or  *)
(* differs from it by the entries the command is about.                    *)
OwnAt(p, where, c, t, o) ==
    /\ where \in {"create", "confirm", "save"} \/ t \in {"create", "initialize"} => Is(p, "new")
    /\ where = "finish" \/ t = "finish" => Is(p, "setup")
    /\ where \in {"wallet", "fill"} => input[p].kind \in {"import", "setup", "new"}
    /\ where \in {"update", "watch", "metadata"} => Is(p, "deploy")
    /\ t = "initialize" => ~Has(p, "no_name")
    /\ where \in {"wallet", "fill", "finish", "create", "confirm", "save"} => o \/ c = config
    /\ where \in {"write", "rename"} => o \/ ChangesItsOwn(p, config, c)
    /\ Is(p, "new") /\ ~Has(p, "no_name") =>
          /\ where \in {"wallet", "fill", "create", "confirm", "save", "write", "rename"} =>
                o \/ config.databases[input[p].name] = None
          /\ where \in {"write", "rename"} /\ t = "create" =>
                o \/ c.databases[input[p].name] = None

OwnCopies == \A p \in Commands : OwnAt(p, pc[p], copy[p], then[p], overlap[p])

(* A step of p leaves what holds of the others as it is, unless it writes   *)
(* the file.                                                               *)
LEMMA OwnStep ==
    ASSUME WorkspaceTypeOK, OwnCopies, NEW p \in Commands, NEW where, NEW c, NEW t, NEW o,
           UNCHANGED <<input, config>>, OwnAt(p, where, c, t, o),
           pc' = [pc EXCEPT ![p] = where], copy' = [copy EXCEPT ![p] = c],
           then' = [then EXCEPT ![p] = t], overlap' = [overlap EXCEPT ![p] = o]
    PROVE  OwnCopies'
<1>1. pc'[p] = where /\ copy'[p] = c /\ then'[p] = t /\ overlap'[p] = o
    BY DEF WorkspaceTypeOK
<1>2. ASSUME NEW q \in Commands \ {p}
      PROVE  pc'[q] = pc[q] /\ copy'[q] = copy[q] /\ then'[q] = then[q] /\ overlap'[q] = overlap[q]
    BY DEF WorkspaceTypeOK
<1>3. ASSUME NEW q \in Commands
      PROVE  OwnAt(q, pc[q], copy[q], then[q], overlap[q])'
    <2> USE DEF OwnAt, ChangesItsOwn, ItsNames, ItsKeys, MetadataKeys, Is, Has
    <2>1. CASE q = p
        BY <1>1, <2>1
    <2>2. CASE q # p
        BY <1>2, <2>2 DEF OwnCopies
    <2> QED
        BY <2>1, <2>2
<1> QED
    BY <1>3 DEF OwnCopies

LEMMA LoadOwn ==
    ASSUME WorkspaceTypeOK, OwnCopies, NEW p \in Commands, NEW where, NEW c, Load(p, c, where),
           UNCHANGED <<input, config>>, NEW t, then' = [then EXCEPT ![p] = t],
           OwnAt(p, where, c, t, FALSE)
    PROVE  OwnCopies'
BY OwnStep DEF Load, Goto

LEMMA GotoOwn ==
    ASSUME WorkspaceTypeOK, OwnCopies, NEW p \in Commands, NEW where, Goto(p, where),
           UNCHANGED <<input, config, copy, overlap>>, NEW t, then' = [then EXCEPT ![p] = t],
           OwnAt(p, where, copy[p], t, overlap[p])
    PROVE  OwnCopies'
<1>1. copy = [copy EXCEPT ![p] = copy[p]] /\ overlap = [overlap EXCEPT ![p] = overlap[p]]
    BY DEF WorkspaceTypeOK
<1> QED
    BY <1>1, OwnStep DEF Goto

(* What a command is told by OwnCopies and the types.                      *)
LEMMA OwnFacts ==
    ASSUME WorkspaceTypeOK, OwnCopies, NEW p \in Commands
    PROVE  /\ OwnAt(p, pc[p], copy[p], then[p], overlap[p])
           /\ then = [then EXCEPT ![p] = then[p]]
           /\ config \in Config /\ copy[p] \in Config
           /\ input[p].name \in Names /\ input[p].circle \in Found
BY WorkspaceAssumption DEF WorkspaceTypeOK, OwnCopies

LEMMA LoadsOwn ==
    ASSUME WorkspaceTypeOK, OwnCopies, NEW p \in Commands,
           \/ SetDatabase(p) \/ SetDefault(p) \/ RemoveDatabase(p) \/ SaveMetadata(p)
           \/ AttachWallet(p) \/ StartImport(p)
    PROVE  OwnCopies'
<1> USE OwnFacts DEF files
<1> DEFINE name == input[p].name
           circle == input[p].circle
           Changed(c) == Load(p, c, "write") /\ ChangesItsOwn(p, config, c) /\ ~Is(p, "new")
<1>0. UNCHANGED <<input, config>> /\ then' = [then EXCEPT ![p] = then[p]]
    BY DEF SetDatabase, SetDefault, RemoveDatabase, SaveMetadata, AttachWallet, StartImport
<1>1. ASSUME NEW c, Changed(c) PROVE OwnCopies'
    <2>1. OwnAt(p, "write", c, then[p], FALSE)
        BY <1>1 DEF OwnAt
    <2> QED
        BY <1>0, <1>1, <2>1, LoadOwn
<1>2. ASSUME Fails(p) PROVE OwnCopies'
    <2>1. OwnAt(p, "failed", copy[p], then[p], overlap[p])
        BY DEF OwnAt
    <2> QED
        BY <1>0, <1>2, <2>1, GotoOwn DEF Fails
<1> USE DEF ChangesItsOwn, ItsNames, ItsKeys, Starts, Is, Config
<1>3. CASE SetDatabase(p)
    <2> DEFINE c == [config EXCEPT !.databases[name] = circle,
                                   !.default = IF @ = None THEN name ELSE @]
    <2>1. Changed(c)
        BY <1>3 DEF SetDatabase
    <2> QED
        BY <1>1, <2>1
<1>4. CASE SetDefault(p)
    <2> DEFINE c == [config EXCEPT !.default = name]
    <2>1. Fails(p) \/ Changed(c)
        BY <1>4 DEF SetDefault
    <2> QED
        BY <1>1, <1>2, <2>1
<1>5. CASE RemoveDatabase(p)
    <2> DEFINE c == [config EXCEPT !.databases[name] = None, !.metadata[name] = None,
                                   !.default = IF @ = name THEN None ELSE @]
    <2>1. Changed(c)
        BY <1>5 DEF RemoveDatabase
    <2> QED
        BY <1>1, <2>1
<1>6. CASE SaveMetadata(p)
    <2> DEFINE c == [config EXCEPT !.metadata =
                        [k \in DOMAIN @ |-> IF k \in MetadataKeys(config, circle)
                                            THEN circle ELSE @[k]]]
    <2>1. Is(p, "upgrade") \/ Is(p, "deploy")
        BY <1>6 DEF SaveMetadata, OwnAt
    <2>2. Changed(c)
        BY <1>6, <2>1 DEF SaveMetadata
    <2> QED
        BY <1>1, <2>2
<1>7. CASE AttachWallet(p)
    <2> DEFINE c == [config EXCEPT !.wallet = input[p].path]
    <2>1. Fails(p) \/ Changed(c)
        BY <1>7 DEF AttachWallet
    <2> QED
        BY <1>1, <1>2, <2>1
<1>8. CASE StartImport(p)
    <2>1. Load(p, config, "wallet") /\ OwnAt(p, "wallet", config, then[p], FALSE)
        BY <1>8 DEF StartImport, OwnAt
    <2> QED
        BY <1>0, <2>1, LoadOwn
<1> QED
    BY <1>3, <1>4, <1>5, <1>6, <1>7, <1>8

(* setup and new as they begin. *)
LEMMA PromptsOwn ==
    ASSUME WorkspaceTypeOK, OwnCopies, NEW p \in Commands, StartSetup(p) \/ StartNew(p)
    PROVE  OwnCopies'
<1> USE DEF files
<1> DEFINE named == Is(p, "new") /\ ~Has(p, "no_name") => config.databases[input[p].name] = None
<1>1. ASSUME NEW t, then' = [then EXCEPT ![p] = t], Fails(p),
             t \in {"create", "initialize"} => Is(p, "new"), t = "finish" => Is(p, "setup"),
             t = "initialize" => ~Has(p, "no_name"), UNCHANGED <<input, config>>
      PROVE  OwnCopies'
    <2>1. OwnAt(p, "failed", copy[p], t, overlap[p])
        BY <1>1, OwnFacts DEF OwnAt
    <2> QED
        BY <1>1, <2>1, GotoOwn DEF Fails
<1>2. ASSUME NEW path, NEW where, NEW t, then' = [then EXCEPT ![p] = t],
             \/ Load(p, [config EXCEPT !.wallet = path], "write")
             \/ Load(p, config, where), where \in {"wallet", "finish", "create"},
             where = "finish" \/ t = "finish" => Is(p, "setup"),
             where = "create" \/ t \in {"create", "initialize"} => Is(p, "new"),
             t = "initialize" => ~Has(p, "no_name"),
             named, Is(p, "setup") \/ Is(p, "new"), UNCHANGED <<input, config>>
      PROVE  OwnCopies'
    <2>1. CASE Load(p, [config EXCEPT !.wallet = path], "write")
        <3>1. OwnAt(p, "write", [config EXCEPT !.wallet = path], t, FALSE)
            BY <1>2, OwnFacts DEF OwnAt, ChangesItsOwn, Is, Config
        <3> QED
            BY <1>2, <2>1, <3>1, LoadOwn
    <2>2. CASE Load(p, config, where)
        <3>1. OwnAt(p, where, config, t, FALSE)
            BY <1>2 DEF OwnAt, Is
        <3> QED
            BY <1>2, <2>2, <3>1, LoadOwn
    <2> QED
        BY <1>2, <2>1, <2>2
<1>3. ASSUME NEW next \in {"finish", "create"}, UNCHANGED <<input, config>>, named,
             \/ next = "finish" /\ Is(p, "setup") /\ Prompt(p, Load(p, config, "finish"), next)
             \/ next = "create" /\ Is(p, "new") /\ Prompt(p, Fails(p), next)
      PROVE  OwnCopies'
    <2>1. then' = [then EXCEPT ![p] = next]
        BY <1>3 DEF Prompt
    <2>2. \/ Load(p, [config EXCEPT !.wallet = input[p].path], "write")
          \/ Load(p, config, "wallet")
          \/ Load(p, config, "finish") /\ Is(p, "setup")
          \/ Fails(p)
        BY <1>3 DEF Prompt
    <2>3. /\ next = "create" => Is(p, "new")
          /\ next = "finish" => Is(p, "setup")
          /\ Is(p, "setup") \/ Is(p, "new")
        BY <1>3
    <2> QED
        BY <1>1, <1>2, <1>3, <2>1, <2>2, <2>3
<1>4. /\ then[p] \in {"create", "initialize"} => Is(p, "new")
      /\ then[p] = "finish" => Is(p, "setup")
      /\ then[p] = "initialize" => ~Has(p, "no_name")
      /\ then = [then EXCEPT ![p] = then[p]]
    BY OwnFacts DEF OwnAt
<1>5. CASE StartSetup(p)
    <2> DEFINE wallet == IF Has(p, "wallet") THEN input[p].path ELSE FoundWallet(config)
    <2>1. UNCHANGED <<input, config>> /\ Is(p, "setup") /\ named
        BY <1>5 DEF StartSetup, Starts, Is
    <2>2. CASE then' = then /\ Load(p, [config EXCEPT !.wallet = wallet], "write")
        <3>1. then' = [then EXCEPT ![p] = then[p]]
            BY <1>4, <2>2
        <3>2. "wallet" \in {"wallet", "finish", "create"} /\ "wallet" \notin {"finish", "create"}
            OBVIOUS
        <3> QED
            BY <1>2, <1>4, <2>1, <2>2, <3>1, <3>2
    <2>3. CASE then' = then /\ Load(p, config, "finish")
        <3>1. then' = [then EXCEPT ![p] = then[p]]
            BY <1>4, <2>3
        <3> QED
            BY <1>2, <1>4, <2>1, <2>3, <3>1
    <2>4. CASE then' = then /\ Fails(p)
        <3>1. then' = [then EXCEPT ![p] = then[p]]
            BY <1>4, <2>4
        <3> QED
            BY <1>1, <1>4, <2>1, <2>4, <3>1
    <2>5. CASE Prompt(p, Load(p, config, "finish"), "finish")
        BY <1>3, <2>1, <2>5
    <2> QED
        BY <1>5, <2>2, <2>3, <2>4, <2>5 DEF StartSetup
<1>6. CASE StartNew(p)
    <2>1. UNCHANGED <<input, config>> /\ Is(p, "new")
        BY <1>6 DEF StartNew, Starts
    <2>2. CASE then' = then /\ Fails(p)
        <3>1. then' = [then EXCEPT ![p] = then[p]]
            BY <1>4, <2>2
        <3> QED
            BY <1>1, <1>4, <2>1, <2>2, <3>1
    <2>3. CASE then' = then /\ Load(p, config, "create") /\ named
        <3>1. then' = [then EXCEPT ![p] = then[p]]
            BY <1>4, <2>3
        <3> QED
            BY <1>2, <1>4, <2>1, <2>3, <3>1
    <2>4. CASE Prompt(p, Fails(p), "create") /\ named
        BY <1>3, <2>1, <2>4
    <2> QED
        BY <1>6, <2>2, <2>3, <2>4 DEF StartNew, NameIsTaken
<1> QED
    BY <1>5, <1>6

(* Steps that go on with the copy as it is.                                *)
LEMMA GoesOnOwn ==
    ASSUME WorkspaceTypeOK, OwnCopies, NEW p \in Commands,
           \/ FinishSetup(p) \/ CreateWallet(p) \/ SubmitDeploy(p) \/ ConfirmDeploy(p)
           \/ FinishNew(p) \/ StartDeploy(p) \/ SubmitUpdate(p) \/ ConfirmUpdate(p)
           \/ ResolveBootstrap(p) \/ WriteFirst(p) \/ WriteTemporary(p) \/ Stop(p)
    PROVE  OwnCopies'
<1> USE DEF files
<1>1. /\ OwnAt(p, pc[p], copy[p], then[p], overlap[p]) /\ then = [then EXCEPT ![p] = then[p]]
    BY OwnFacts
<1>2. UNCHANGED <<input, config, copy, overlap>>
    BY DEF FinishSetup, CreateWallet, SubmitDeploy, ConfirmDeploy, FinishNew, StartDeploy,
           SubmitUpdate, ConfirmUpdate, ResolveBootstrap, WriteFirst, WriteTemporary, Stop
<1>3. CASE FinishSetup(p)
    <2>1. OwnAt(p, "write", copy[p], "done", overlap[p])
        BY <1>1, <1>3 DEF FinishSetup, OwnAt, ChangesItsOwn, Is
    <2> QED
        BY <1>2, <1>3, <2>1, GotoOwn DEF FinishSetup
<1>4. CASE CreateWallet(p) \/ SubmitDeploy(p) \/ ConfirmDeploy(p) \/ WriteTemporary(p)
    <2>1. PICK where \in {"failed", "fill", "save", "confirm", "rename"} :
              Goto(p, where) /\ OwnAt(p, where, copy[p], then[p], overlap[p])
        BY <1>1, <1>4 DEF CreateWallet, SubmitDeploy, ConfirmDeploy, WriteTemporary, OwnAt
    <2>2. then' = [then EXCEPT ![p] = then[p]]
        BY <1>1, <1>4 DEF CreateWallet, SubmitDeploy, ConfirmDeploy, WriteTemporary
    <2> QED
        BY <1>2, <2>1, <2>2, GotoOwn
<1>5. CASE StartDeploy(p) \/ SubmitUpdate(p) \/ ConfirmUpdate(p)
    <2>1. PICK where \in {"failed", "update", "watch", "metadata", "done"} :
              Goto(p, where) /\ OwnAt(p, where, copy[p], then[p], overlap[p])
        BY <1>1, <1>5 DEF StartDeploy, SubmitUpdate, ConfirmUpdate, OwnAt, Starts, Is
    <2>2. then' = [then EXCEPT ![p] = then[p]]
        BY <1>1, <1>5 DEF StartDeploy, SubmitUpdate, ConfirmUpdate
    <2> QED
        BY <1>2, <2>1, <2>2, GotoOwn
<1>6. CASE FinishNew(p) \/ ResolveBootstrap(p) \/ WriteFirst(p) \/ Stop(p)
    <2>1. PICK where \in {"done", "failed", "first", "stopped"} : Goto(p, where)
        BY <1>6 DEF FinishNew, ResolveBootstrap, WriteFirst, Stop
    <2>2. OwnAt(p, where, copy[p], then[p], overlap[p])
        BY <1>1 DEF OwnAt
    <2>3. then' = [then EXCEPT ![p] = then[p]]
        BY <1>1, <1>6 DEF FinishNew, ResolveBootstrap, WriteFirst, Stop
    <2> QED
        BY <1>2, <2>1, <2>2, <2>3, GotoOwn
<1> QED
    BY <1>3, <1>4, <1>5, <1>6

(* Steps that change the copy: a wallet is stored, or a name is given.     *)
LEMMA ChangesOwn ==
    ASSUME WorkspaceTypeOK, OwnCopies, NEW p \in Commands,
           FillWallet(p) \/ ReplaceWallet(p) \/ SaveName(p)
    PROVE  OwnCopies'
<1> USE DEF files
<1>1. /\ OwnAt(p, pc[p], copy[p], then[p], overlap[p]) /\ then = [then EXCEPT ![p] = then[p]]
      /\ copy = [copy EXCEPT ![p] = copy[p]] /\ overlap = [overlap EXCEPT ![p] = overlap[p]]
      /\ config \in Config /\ copy[p] \in Config
    BY OwnFacts DEF WorkspaceTypeOK
<1>2. UNCHANGED <<input, config, overlap>>
    BY DEF FillWallet, ReplaceWallet, SaveName
<1>3. CASE SaveName(p)
    <2>1. CASE Has(p, "no_name")
        <3>1. OwnAt(p, "initialize", copy[p], then[p], overlap[p])
            BY <1>1 DEF OwnAt
        <3> QED
            BY <1>1, <1>2, <1>3, <2>1, <3>1, GotoOwn DEF SaveName
    <2>2. CASE ~Has(p, "no_name")
        <3>1. overlap[p] \/ ChangesItsOwn(p, config, Naming(p, copy[p]))
            BY <1>1, <1>3 DEF SaveName, OwnAt, ChangesItsOwn, ItsNames, ItsKeys, Naming, Is, Config
        <3>2. OwnAt(p, "write", Naming(p, copy[p]), "initialize", overlap[p])
            BY <1>1, <1>3, <2>2, <3>1 DEF SaveName, OwnAt, Is
        <3> QED
            BY <1>1, <1>2, <1>3, <2>2, <3>2, OwnStep DEF SaveName, Goto
    <2> QED
        BY <2>1, <2>2
<1>4. CASE FillWallet(p) \/ ReplaceWallet(p)
    <2> DEFINE c == [copy[p] EXCEPT !.wallet = output[p]]
    <2>1. then' = [then EXCEPT ![p] = then[p]] /\ UNCHANGED overlap
        BY <1>1, <1>4 DEF FillWallet, ReplaceWallet
    <2>2. CASE (Goto(p, "done") \/ Goto(p, "failed")) /\ UNCHANGED copy
        <3>1. \A where \in {"done", "failed"} : OwnAt(p, where, copy[p], then[p], overlap[p])
            BY <1>1 DEF OwnAt
        <3>2. PICK where \in {"done", "failed"} : Goto(p, where)
            BY <2>2
        <3> QED
            BY <1>2, <2>1, <2>2, <3>1, <3>2, GotoOwn
    <2>3. CASE Goto(p, "write") /\ copy' = [copy EXCEPT ![p] = c]
        <3>1. c.databases = copy[p].databases /\ c.metadata = copy[p].metadata
              /\ c.default = copy[p].default
            BY <1>1 DEF Config
        <3>2. overlap[p] \/ ChangesItsOwn(p, config, c)
            BY <1>1, <1>4, <3>1 DEF FillWallet, ReplaceWallet, OwnAt, ChangesItsOwn
        <3>3. OwnAt(p, "write", c, then[p], overlap[p])
            BY <1>1, <1>4, <3>1, <3>2 DEF FillWallet, ReplaceWallet, OwnAt
        <3> QED
            BY <1>1, <1>2, <2>1, <2>3, <3>3, OwnStep DEF Goto
    <2>4. copy' = [copy EXCEPT ![p].wallet = output[p]] => copy' = [copy EXCEPT ![p] = c]
        BY <1>1
    <2> QED
        BY <1>4, <2>2, <2>3, <2>4 DEF FillWallet, ReplaceWallet, UseWallet
<1> QED
    BY <1>3, <1>4

(* The copy becomes the file, and every other command has an overlap.      *)
LEMMA RenameOwn ==
    ASSUME WorkspaceTypeOK, OwnCopies, NEW p \in Commands, Rename(p)
    PROVE  OwnCopies'
<1>1. /\ pc[p] = "rename" /\ config' = copy[p] /\ UNCHANGED <<input, copy, then>>
      /\ \A q \in Commands : overlap'[q] = (q # p \/ overlap[q])
      /\ pc'[p] = then[p] /\ \A q \in Commands \ {p} : pc'[q] = pc[q]
      /\ then[p] \in Afterwards
    BY DEF Rename, Goto, WorkspaceTypeOK, Afterwards
<1>2. OwnAt(p, pc[p], copy[p], then[p], overlap[p])
    BY DEF OwnCopies
<1>3. OwnAt(p, pc[p], copy[p], then[p], overlap[p])'
    BY <1>1, <1>2 DEF OwnAt, Afterwards, Is, Has
<1>4. ASSUME NEW q \in Commands \ {p} PROVE OwnAt(q, pc[q], copy[q], then[q], overlap[q])'
    BY <1>1, <1>4 DEF OwnCopies, OwnAt, Is, Has
<1> QED
    BY <1>3, <1>4 DEF OwnCopies

LEMMA StepKeepsOwnCopies == WorkspaceInv /\ OwnCopies /\ [Next]_vars => OwnCopies'
<1> SUFFICES ASSUME WorkspaceTypeOK, OwnCopies, [Next]_vars PROVE OwnCopies'
    BY DEF WorkspaceInv
<1>1. CASE UNCHANGED <<input, config, pc, copy, then, overlap>>
    BY <1>1 DEF OwnCopies, OwnAt, ChangesItsOwn, ItsNames, ItsKeys, MetadataKeys, Is, Has
<1>2. ASSUME NEW p \in Commands, Step(p) \/ Stop(p) PROVE OwnCopies'
    BY <1>2, LoadsOwn, PromptsOwn, GoesOnOwn, ChangesOwn, RenameOwn DEF Step
<1>3. ASSUME NEW p \in Commands, ExecuteDeploy(p) \/ ExecuteUpdate(p) PROVE OwnCopies'
    BY <1>1, <1>3 DEF ExecuteDeploy, ExecuteUpdate, files
<1> QED
    BY <1>1, <1>2, <1>3 DEF Next, vars, files

(* A step that changes the file is the rename of one command.              *)
LEMMA OnlyRenameWrites ==
    ASSUME NEW p \in Commands, Step(p) \/ Stop(p) \/ ExecuteDeploy(p) \/ ExecuteUpdate(p),
           ~Rename(p)
    PROVE  config' = config
<1> USE DEF files
<1>1. CASE \/ SetDatabase(p) \/ SetDefault(p) \/ RemoveDatabase(p) \/ SaveMetadata(p)
           \/ AttachWallet(p) \/ StartImport(p) \/ StartSetup(p) \/ FinishSetup(p)
    BY <1>1 DEF SetDatabase, SetDefault, RemoveDatabase, SaveMetadata, AttachWallet,
                StartImport, StartSetup, FinishSetup
<1>2. CASE \/ CreateWallet(p) \/ FillWallet(p) \/ ReplaceWallet(p) \/ StartNew(p)
           \/ SubmitDeploy(p) \/ ConfirmDeploy(p) \/ SaveName(p) \/ FinishNew(p)
    BY <1>2 DEF CreateWallet, FillWallet, ReplaceWallet, StartNew, SubmitDeploy, ConfirmDeploy,
                SaveName, FinishNew
<1>3. CASE \/ StartDeploy(p) \/ SubmitUpdate(p) \/ ConfirmUpdate(p) \/ ResolveBootstrap(p)
           \/ WriteFirst(p) \/ WriteTemporary(p) \/ Stop(p) \/ ExecuteDeploy(p)
           \/ ExecuteUpdate(p)
    BY <1>3 DEF StartDeploy, SubmitUpdate, ConfirmUpdate, ResolveBootstrap, WriteFirst,
                WriteTemporary, Stop, ExecuteDeploy, ExecuteUpdate
<1> QED
    BY <1>1, <1>2, <1>3 DEF Step

(* Whatever commands run at once, one that writes the config changes only   *)
(* the entries it is about and takes no name that is saved, unless the file *)
(* was replaced since it was loaded.                                       *)
THEOREM LostOnlyByOverlapHolds == Spec => LostOnlyByOverlap
<1>1. Init => OwnCopies
    BY DEF Init, OwnCopies, OwnAt, Is
<1>2. Spec => []OwnCopies
    BY <1>1, WorkspaceInvHolds, StepKeepsOwnCopies, PTL DEF Spec
<1>3. WorkspaceInv /\ OwnCopies /\ [Next]_vars =>
          \A p \in Commands : pc[p] = "rename" /\ config' # config =>
              \/ overlap[p] \/ pc'[p] = pc[p]
              \/ /\ ChangesItsOwn(p, config, config')
                 /\ Is(p, "new") /\ then[p] = "initialize" =>
                       config.databases[input[p].name] = None
    <2> SUFFICES ASSUME WorkspaceInv, OwnCopies, [Next]_vars, config' # config,
                        NEW p \in Commands, pc[p] = "rename", ~overlap[p], pc'[p] # pc[p]
                 PROVE  /\ ChangesItsOwn(p, config, config')
                        /\ Is(p, "new") /\ then[p] = "initialize" =>
                              config.databases[input[p].name] = None
        OBVIOUS
    <2>1. PICK q \in Commands : Rename(q)
        BY OnlyRenameWrites DEF Next, vars, files
    <2>2. q = p
        BY <2>1 DEF Rename, Goto, WorkspaceInv, WorkspaceTypeOK
    <2>3. config' = copy[p]
        BY <2>1, <2>2 DEF Rename
    <2>4. OwnAt(p, pc[p], copy[p], then[p], overlap[p])
        BY DEF OwnCopies
    <2> QED
        BY <2>3, <2>4 DEF OwnAt
<1> QED
    BY <1>2, <1>3, WorkspaceInvHolds, PTL DEF Spec, LostOnlyByOverlap

=============================================================================
