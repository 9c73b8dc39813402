----------------------------- MODULE PluginLoader -----------------------------
(***************************************************************************)
(* How the host comes by its plugins: HostBuilder::build of                *)
(* crates/aegis-core/src/host.rs, load_dynamic of loader.rs, is_enabled of *)
(* config.rs and the registrations of aegis-sdk.  Opening a library runs   *)
(* its code, so a library is opened only when its declared name is enabled *)
(* and not taken, and its path is not one others can write.                *)
(***************************************************************************)
EXTENDS Naturals, Sequences, FiniteSets, SequencesExt

CONSTANTS
  Explicit,   (* with_plugin: the agent's console sink, or nothing         *)
  Declared,   (* dynamic_plugins: [name, lib], in the order of the config  *)
  Builtins,   (* the orders inventory may list the built-in plugins in     *)
  Denied,     (* the values disabled_plugins may have                      *)
  MaxFaults   (* bound of the model: constructors and inits that fail      *)

Libs == {Declared[i].lib : i \in DOMAIN Declared}
Names == Range(Explicit) \cup UNION {Range(names) : names \in Builtins}
           \cup {Declared[i].name : i \in DOMAIN Declared}

(* A plugin object: its name, and the library its code is in, if any.      *)
Plugins == [name : Names, lib : Libs \cup {"none"}]

Static(n) == [name |-> n, lib |-> "none"]

ASSUME LoaderAssumption ==
  /\ Explicit \in Seq(Names) /\ Builtins \subseteq Seq(Names)
  /\ Declared \in Seq([name : Names, lib : Libs])
  /\ \A i, j \in DOMAIN Declared : Declared[i].lib # "none" /\ (Declared[i].lib = Declared[j].lib => i = j)
  /\ MaxFaults \in Nat

VARIABLES
  building,   (* "explicit", "dynamic", "static", "done", "failing", "failed" *)
  explicit,   (* the plugins handed over still to come                     *)
  order,      (* the built-in plugins still to come                        *)
  declared,   (* the declarations still to come                            *)
  disabled,   (* disabled_plugins                                          *)
  loaded,     (* the plugin objects made, in load order: [name, lib]       *)
  mapped,     (* libs: the libraries that are mapped                       *)
  ran,        (* history: the libraries whose code was run                 *)
  faults      (* constructors and inits that failed                        *)

loader == <<building, explicit, order, declared, disabled, loaded, mapped, ran, faults>>

LoaderInit ==
  /\ building = "explicit" /\ explicit = Explicit /\ declared = Declared
  /\ order \in Builtins /\ disabled \in Denied
  /\ loaded = <<>> /\ mapped = {} /\ ran = {} /\ faults = 0

Seen == {p.name : p \in Range(loaded)}
IsEnabled(n) == n \notin disabled
Wanted(n) == IsEnabled(n) /\ n \notin Seen

(* A constructor panics or answers wrongly, an init fails or panics.       *)
Fails == faults < MaxFaults /\ faults' = faults + 1

(* 1. Plugins handed to the builder.                                       *)
LoadExplicit ==
  /\ building = "explicit" /\ explicit # <<>> /\ explicit' = Tail(explicit)
  /\ loaded' = IF Wanted(Head(explicit)) THEN Append(loaded, Static(Head(explicit))) ELSE loaded
  /\ UNCHANGED <<building, order, declared, disabled, mapped, ran, faults>>

ExplicitDone ==
  /\ building = "explicit" /\ explicit = <<>> /\ building' = "dynamic"
  /\ UNCHANGED <<explicit, order, declared, disabled, loaded, mapped, ran, faults>>

(* 2. Declared libraries.  A disabled one, or one whose name is taken, is  *)
(* not opened.                                                             *)
Declaration == Head(declared)

(* Mutated form: the name is looked at only after the library is opened.   *)
MayOpen_Any(d) == TRUE

MayOpen(d) == Wanted(d.name)

SkipDynamic ==
  /\ building = "dynamic" /\ declared # <<>>
  /\ ~MayOpen(Declaration)
  /\ declared' = Tail(declared)
  /\ UNCHANGED <<building, explicit, order, disabled, loaded, mapped, ran, faults>>

(* An error of load_dynamic ends the build: a file or directory others can *)
(* write is refused unopened; one that is no library, lacks a symbol,      *)
(* panics at its entry, returns nothing or the wrong version has run.  The *)
(* locals of build are dropped last declared first, so the libraries go    *)
(* before the plugins.                                                     *)
LoadFails ==
  /\ building = "dynamic" /\ declared # <<>> /\ MayOpen(Declaration)
  /\ \E code \in {{}, {Declaration.lib}} : ran' = ran \cup code
  /\ building' = "failing" /\ mapped' = {}
  /\ UNCHANGED <<explicit, order, declared, disabled, loaded, faults>>

DropPlugins ==
  /\ building = "failing" /\ building' = "failed" /\ loaded' = <<>>
  /\ UNCHANGED <<explicit, order, declared, disabled, mapped, ran, faults>>

(* A constructor returns the declared plugin, or it panics or returns one  *)
(* of another name; the library stays mapped all the same.                 *)
LoadDynamic ==
  /\ building = "dynamic" /\ declared # <<>> /\ MayOpen(Declaration)
  /\ mapped' = mapped \cup {Declaration.lib} /\ ran' = ran \cup {Declaration.lib}
  /\ \/ loaded' = Append(loaded, Declaration) /\ UNCHANGED faults
     \/ Fails /\ UNCHANGED loaded
  /\ declared' = Tail(declared)
  /\ UNCHANGED <<building, explicit, order, disabled>>

DynamicDone ==
  /\ building = "dynamic" /\ declared = <<>> /\ building' = "static"
  /\ UNCHANGED <<explicit, order, declared, disabled, loaded, mapped, ran, faults>>

(* 3. Built-in plugins; a constructor that panics, or an old API version,  *)
(* costs only its own plugin.                                              *)
LoadStatic ==
  /\ building = "static" /\ order # <<>>
  /\ LET name == Head(order)
     IN \/ Wanted(name) /\ loaded' = Append(loaded, Static(name)) /\ UNCHANGED faults
        \/ Wanted(name) /\ Fails /\ UNCHANGED loaded
        \/ ~Wanted(name) /\ UNCHANGED <<loaded, faults>>
  /\ order' = Tail(order)
  /\ UNCHANGED <<building, explicit, declared, disabled, mapped, ran>>

Built ==
  /\ building = "static" /\ order = <<>> /\ building' = "done"
  /\ UNCHANGED <<explicit, order, declared, disabled, loaded, mapped, ran, faults>>

Load ==
  \/ LoadExplicit \/ ExplicitDone \/ SkipDynamic \/ LoadFails \/ DropPlugins \/ LoadDynamic
  \/ DynamicDone \/ LoadStatic \/ Built

(* What runs in the process is what was declared for it: no two plugins    *)
(* share a name, none is disabled, no code of a disabled library has run,  *)
(* and the code of every plugin object is mapped.  Only a build that fails *)
(* drops its libraries before the plugins they made.                       *)
LoadedIsVetted ==
  /\ \A i, j \in DOMAIN loaded : loaded[i].name = loaded[j].name => i = j
  /\ Seen \cap disabled = {}
  /\ \A i \in DOMAIN Declared : Declared[i].name \in disabled => Declared[i].lib \notin ran
  /\ building # "failing" => \A p \in Range(loaded) : p.lib \in mapped \cup {"none"}
=============================================================================
