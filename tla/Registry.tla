------------------------------ MODULE Registry ------------------------------
(***************************************************************************)
(* Startup of either front end, and the account table it builds: load and  *)
(* validate the settings (config.py), build the table from accounts.toml   *)
(* entry by entry (registry.py), then serve or exit.  The table never      *)
(* changes again; Resolve is how a call finds its account in it.           *)
(***************************************************************************)
EXTENDS Integers, Sequences

CONSTANTS
    Settings,     \* environments: [revision, retries, ttl, tokens]
    NotANumber,   \* a setting that int() rejects
    Manifests,    \* NoManifest, BadManifest, or sequences of [name, key, metric]
    NoManifest,   \* accounts.toml is not there
    BadManifest,  \* it is not TOML, or an entry of it is not a table
    Names,        \* the texts that callers and manifests name accounts by
    Slugs,        \* the names that _NAME_RE matches
    Trimmed,      \* Trimmed[n]: n without the blanks around it
    NoName,       \* the account is omitted
    NotText,      \* the account is not a string
    ApiKeys,
    NoKey         \* the entry's variable is missing, unset or empty

Entries == [name : Names, key : ApiKeys \cup {NoKey}, metric : BOOLEAN]

ASSUME RegistryAssumption ==
    /\ Trimmed \in [Names -> Names] /\ Slugs \subseteq Names
    /\ \A n \in Slugs : Trimmed[n] = n
    /\ NoName \notin Names /\ NotText \notin Names /\ NoName # NotText
    /\ NoKey \notin ApiKeys /\ NoManifest # BadManifest
    /\ \A mf \in Manifests \ {NoManifest, BadManifest} : mf \in Seq(Entries)

VARIABLES
    boot,       \* "config", "manifest", "loading", "serving" or "exited"
    rest,       \* whether this is the REST front end
    settings,
    manifest,
    loaded,     \* how many entries are in the table
    accounts    \* the table: canonical name -> [name, key, metric]

registry == <<boot, rest, settings, manifest, loaded, accounts>>

RegistryInit ==
    /\ boot = "config"
    /\ rest \in BOOLEAN
    /\ settings \in Settings
    /\ manifest \in Manifests
    /\ loaded = 0
    /\ accounts = <<>>

-----------------------------------------------------------------------------
Exit == boot' = "exited" /\ UNCHANGED <<rest, settings, manifest, loaded, accounts>>

Sound(s) ==
    /\ s.revision
    /\ s.retries # NotANumber /\ s.ttl # NotANumber
    /\ s.retries >= 0 /\ s.ttl >= 0
    /\ rest => s.tokens # {}

\* load_config and validate_config; REST also needs a credential to accept.
ValidateConfig ==
    /\ boot = "config"
    /\ IF Sound(settings)
       THEN boot' = "manifest" /\ UNCHANGED <<rest, settings, manifest, loaded, accounts>>
       ELSE Exit

\* load_registry: no manifest is an empty table, a malformed one is the end.
ReadManifest ==
    /\ boot = "manifest"
    /\ \/ manifest = BadManifest /\ Exit
       \/ /\ manifest = NoManifest
          /\ boot' = "serving" /\ UNCHANGED <<rest, settings, manifest, loaded, accounts>>
       \/ /\ manifest \notin {BadManifest, NoManifest}
          /\ boot' = "loading" /\ UNCHANGED <<rest, settings, manifest, loaded, accounts>>

\* build_registry: the entry must have a valid name and a key that is set.  It is
\* filed under its trimmed name, over an earlier entry of that name.
ValidEntry_Keyless(e) == Trimmed[e.name] \in Slugs
ValidEntry(e) == Trimmed[e.name] \in Slugs /\ e.key # NoKey

Filed(n) == Trimmed[n]

LoadEntry ==
    /\ boot = "loading" /\ loaded < Len(manifest)
    /\ LET e == manifest[loaded + 1]
           name == Filed(e.name)
       IN  IF ValidEntry(e)
           THEN /\ loaded' = loaded + 1
                /\ accounts' = [n \in DOMAIN accounts \cup {name} |->
                                   IF n = name
                                   THEN [name |-> name, key |-> e.key, metric |-> e.metric]
                                   ELSE accounts[n]]
                /\ UNCHANGED <<boot, rest, settings, manifest>>
           ELSE Exit

StartServing ==
    /\ boot = "loading" /\ loaded = Len(manifest)
    /\ boot' = "serving"
    /\ UNCHANGED <<rest, settings, manifest, loaded, accounts>>

Boot == ValidateConfig \/ ReadManifest \/ LoadEntry \/ StartServing

-----------------------------------------------------------------------------
\* AccountRegistry.resolve: the code it refuses a name with, or "OK".
Resolution_AnyDefault(n) ==
    CASE n = NoName /\ DOMAIN accounts = {} -> "CONFIG_ERROR"
      [] n = NotText -> "INTERNAL_ERROR"
      [] n \in Names /\ Trimmed[n] \notin DOMAIN accounts -> "UNKNOWN_ACCOUNT"
      [] OTHER -> "OK"
Resolution(n) ==
    CASE n = NoName /\ DOMAIN accounts = {} -> "CONFIG_ERROR"
      [] n = NoName /\ \E a, b \in DOMAIN accounts : a # b -> "INVALID_ARGUMENT"
      [] n = NotText -> "INTERNAL_ERROR"     \* None but not a string: no strip()
      [] n \in Names /\ Trimmed[n] \notin DOMAIN accounts -> "UNKNOWN_ACCOUNT"
      [] OTHER -> "OK"

Resolve(n) ==
    LET only == CHOOSE m \in DOMAIN accounts : TRUE
    IN  IF n = NoName THEN accounts[only] ELSE accounts[Trimmed[n]]

-----------------------------------------------------------------------------
\* Nothing is served on a bad environment or manifest: every entry of the file has
\* its key by then, and REST a credential to ask for, so that no caller is the one
\* to find out (registry.py:146-147, config.py:116-122).
FailsFast ==
    boot = "serving" =>
        /\ Sound(settings)
        /\ manifest # BadManifest
        /\ manifest # NoManifest =>
              \A i \in 1 .. Len(manifest) :
                  /\ manifest[i].key # NoKey
                  /\ \E n \in DOMAIN accounts : n = Trimmed[manifest[i].name]

\* The entry of a name is the last one in the file that has it, blanks aside, and
\* no account is in the table that the file does not have.
TableOfManifest ==
    \A n \in DOMAIN accounts :
        \E i \in 1 .. loaded :
            /\ Trimmed[manifest[i].name] = n
            /\ accounts[n] = [name |-> n, key |-> manifest[i].key, metric |-> manifest[i].metric]
            /\ \A j \in i + 1 .. loaded : Trimmed[manifest[j].name] # n
=============================================================================
