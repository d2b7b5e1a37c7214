------------------------------- MODULE RubyApi -------------------------------
(***************************************************************************)
(* The Ruby API object (ruby/src/api.cc) in a process that may have a Ruby *)
(* of its own, the host's: finding and loading a Ruby library, bringing    *)
(* its VM up and down, the native objects that Ruby's garbage collector    *)
(* and uninitialize both free.  One thread runs it all; the collector may  *)
(* run whenever Ruby does.                                                 *)
(*                                                                         *)
(* The caller follows two rules that api.hpp leaves unsaid: the destructor *)
(* of a native object unregisters it, and a VM that was cleaned up is not  *)
(* initialized again.                                                      *)
(***************************************************************************)
EXTENDS DynamicLibrary, FiniteSets, FiniteSetsExt

CONSTANTS
  Configs,    \* the processes explored
  Obj,        \* the native objects, numbered in the order of their VALUEs
  HostRuby    \* the library of the host's Ruby

\* Where the libraries to try come from; NoLib when there is none, or when
\* `which' or the run of ruby gives nothing that exists.
NoLib == "none"
\* The host loads its Ruby for itself or for the whole program to see, before the
\* API is used or later.
Config == [platform : {"posix", "windows"}, loadable : SUBSET Library,
           host : {"none", "local", "global"}, later : BOOLEAN, location : Library \cup {NoLib},
           variable : Library \cup {NoLib}, path : Library \cup {NoLib},
           rubyopt : {"none", "bundler", "other"}]

ASSUME ConfigAssumption == Configs \subseteq Config
ASSUME ObjAssumption == Obj \subseteq Nat \ {0}
ASSUME LibraryAssumption ==
  HostRuby \in Library /\ Library \cap {NoLib, NoHandle, Program} = {}
    /\ Holder = {"search", "api"}

VARIABLES
  cfg,          \* the process
  pc,           \* what the thread is doing, "idle" between two calls
  instance,     \* the static object of instance(): "none", "made" or "destroyed"
  ruby,         \* the library whose functions the API calls
  vm,           \* of each library: "down", "up" or "cleaned"
  owner,        \* who brought the VM up: "nobody", "host" or "api"
  hostHas,      \* the host has its library open
  late,         \* the host brought its VM up when the API had a library
  initialized,  \* _initialized
  rubyopt,      \* RUBYOPT: as in Config, or "cleared"
  cell,         \* the Ruby object of each native one: "none", "live" or "reclaimed"
  referenced,   \* the objects that Ruby code can reach
  dfree,        \* the objects whose dfree is set
  frees,        \* how often the native object of the cell was freed
  registered,   \* _data_objects
  it,           \* the iterator of uninitialize; End at the end of the set
  exiting       \* uninitialize was called by the destructor

apiVars == <<instance, ruby, initialized, rubyopt, exiting>>
vmVars == <<vm, owner, hostHas, late>>
objVars == <<cell, referenced, dfree, frees, registered, it>>
vars == <<cfg, pc, apiVars, vmVars, objVars, libraryVars>>

End == 0
HostEarly == cfg.host # "none" /\ ~cfg.later

Init ==
  /\ cfg \in Configs
  /\ platform = cfg.platform /\ loadable = cfg.loadable
  /\ refs = [l \in Library |-> IF l = HostRuby /\ HostEarly THEN 1 ELSE 0]
  /\ visible = IF HostEarly /\ cfg.host = "global" THEN {HostRuby} ELSE {}
  /\ lib = [o \in Holder |-> Unloaded]
  /\ pc = "idle" /\ instance = "none" /\ ruby = NoLib /\ initialized = FALSE /\ exiting = FALSE
  /\ vm = [l \in Library |-> IF refs[l] > 0 THEN "up" ELSE "down"]
  /\ owner = [l \in Library |-> IF refs[l] > 0 THEN "host" ELSE "nobody"]
  /\ hostHas = HostEarly /\ late = FALSE /\ rubyopt = cfg.rubyopt
  /\ cell = [o \in Obj |-> "none"] /\ frees = [o \in Obj |-> 0]
  /\ referenced = {} /\ dfree = {} /\ registered = {} /\ it = End

Ready == pc = "idle" /\ instance = "made" /\ initialized /\ vm[ruby] = "up"

-----------------------------------------------------------------------------
(* instance(): find_library, create and the constructor.                   *)

GetInstance ==
  /\ pc = "idle" /\ instance = "none"
  /\ pc' = "find"
  /\ UNCHANGED <<cfg, apiVars, vmVars, objVars, libraryVars>>

FindLoaded ==
  /\ pc = "find"
  /\ IF platform = "windows" THEN FindByPattern("search", {HostRuby})
     ELSE FindBySymbol("search", Library)
  /\ pc' = IF lib'["search"].handle # NoHandle THEN "create" ELSE "location"
  /\ UNCHANGED <<cfg, apiVars, vmVars, objVars>>

\* without the return after a load that succeeds
TryAll(l, next) ==
  /\ IF l = NoLib THEN UNCHANGED libraryVars ELSE Load("search", l)
  /\ pc' = next
  /\ UNCHANGED <<cfg, apiVars, vmVars, objVars>>

\* One of the places to look: if it names a library that loads, that is it.
Try(l, next) ==
  /\ IF l = NoLib THEN UNCHANGED libraryVars ELSE Load("search", l)
  /\ pc' = IF lib'["search"].handle # NoHandle THEN "create" ELSE next
  /\ UNCHANGED <<cfg, apiVars, vmVars, objVars>>

TryLocation == pc = "location" /\ Try(cfg.location, "variable")
TryVariable == pc = "variable" /\ Try(cfg.variable, "path")
TryPath == pc = "path" /\ Try(cfg.path, "create")

\* Without a library, or one that lacks a symbol, instance() throws, and the
\* next call starts anew.
Create ==
  /\ pc = "create"
  /\ pc' = "idle"
  /\ \/ /\ IsLoaded("search") /\ Move("api", "search")
        /\ ruby' = IF lib["search"].handle = Program THEN HostRuby ELSE lib["search"].handle
        /\ instance' = "made"
     \/ Close("search") /\ UNCHANGED <<instance, ruby>>
  /\ UNCHANGED <<cfg, initialized, rubyopt, exiting, vmVars, objVars>>

-----------------------------------------------------------------------------
(* initialize.                                                             *)

Initialize ==
  /\ pc = "idle" /\ instance = "made" /\ ~initialized
  /\ vm[ruby] # "cleaned"
  /\ pc' = "setup"
  /\ UNCHANGED <<cfg, apiVars, vmVars, objVars, libraryVars>>

\* ruby_setup, which leaves a VM that is up alone
SetUp ==
  /\ pc = "setup"
  /\ vm' = [vm EXCEPT ![ruby] = "up"]
  /\ owner' = IF vm[ruby] = "up" THEN owner ELSE [owner EXCEPT ![ruby] = "api"]
  /\ pc' = IF lib["api"].first THEN "options" ELSE "values"
  /\ UNCHANGED <<cfg, apiVars, hostHas, late, objVars, libraryVars>>

\* RUBYOPT stays changed for the process and what it runs.
RunOptions ==
  /\ pc = "options"
  /\ rubyopt' = IF rubyopt = "bundler" THEN "bundler" ELSE "cleared"
  /\ pc' = "values"
  /\ UNCHANGED <<cfg, instance, ruby, initialized, exiting, vmVars, objVars, libraryVars>>

\* nil, true, false, and the trap of SIGINT.  A Ruby exception leaves
\* initialize, and the VM stays up.
GetValues ==
  /\ pc = "values"
  /\ pc' = "idle"
  /\ initialized' \in BOOLEAN
  /\ UNCHANGED <<cfg, instance, ruby, rubyopt, exiting, vmVars, objVars, libraryVars>>

-----------------------------------------------------------------------------
(* Native objects of Ruby.                                                 *)

\* rb_data_object_alloc; a cell may be used again.
Allocate(o) ==
  /\ Ready
  /\ cell[o] # "live"
  /\ cell' = [cell EXCEPT ![o] = "live"]
  /\ frees' = [frees EXCEPT ![o] = 0]
  /\ referenced' = referenced \cup {o} /\ dfree' = dfree \cup {o}
  /\ UNCHANGED <<cfg, pc, apiVars, vmVars, registered, it, libraryVars>>

\* The native object's constructor, before anything else runs, registers it.
Unconstructed == {o \in Obj : cell[o] = "live" /\ o \in dfree \ registered}

Register(o) ==
  /\ pc = "idle" /\ o \in Unconstructed
  /\ registered' = registered \cup {o}
  /\ UNCHANGED <<cfg, pc, apiVars, vmVars, cell, referenced, dfree, frees, it,
                 libraryVars>>

Drop(o) ==
  /\ Ready /\ o \in referenced /\ Unconstructed = {}
  /\ referenced' = referenced \ {o}
  /\ UNCHANGED <<cfg, pc, apiVars, vmVars, cell, dfree, frees, registered, it,
                 libraryVars>>

\* unregister_data_object
Unregister(r, objects) == r \ objects

\* dfree is called for these objects: the destructor of each unregisters it.
Free(objects) ==
  /\ frees' = [o \in Obj |-> IF o \in objects THEN frees[o] + 1 ELSE frees[o]]
  /\ registered' = Unregister(registered, objects)

\* The VM reclaims these objects, freeing those that still have a dfree.
Reclaim(objects) ==
  /\ Free(objects \cap dfree)
  /\ cell' = [o \in Obj |-> IF o \in objects THEN "reclaimed" ELSE cell[o]]
  /\ referenced' = referenced \ objects /\ dfree' = dfree \ objects

Live == {o \in Obj : cell[o] = "live"}

\* The garbage collector, which may run whenever the VM is up.
Collect(o) ==
  /\ pc = "idle" /\ ruby # NoLib /\ vm[ruby] = "up"
  /\ o \in Live \ referenced
  /\ Reclaim({o})
  /\ UNCHANGED <<cfg, pc, apiVars, vmVars, it, libraryVars>>

-----------------------------------------------------------------------------
(* uninitialize and the destructor.                                        *)

First(s) == IF s = {} THEN End ELSE Min(s)
Successor(o) == First({p \in registered : p > o})

CleansAnyVm == initialized
\* ruby_cleanup is for a VM that is initialized and came with the library.
CleansVm == initialized /\ lib["api"].first

Leave(byDestructor) ==
  /\ pc = "idle" /\ instance = "made" /\ Unconstructed = {}
  /\ exiting' = byDestructor
  /\ pc' = IF CleansVm THEN "cleanup" ELSE "free"
  /\ it' = First(registered)
  /\ UNCHANGED <<cfg, instance, ruby, initialized, rubyopt, vmVars, cell, referenced, dfree, frees,
                 registered, libraryVars>>

Uninitialize == Leave(FALSE)
Exit == Leave(TRUE)

\* ruby_cleanup(0) finalizes every object.
Cleanup ==
  /\ pc = "cleanup"
  /\ vm' = [vm EXCEPT ![ruby] = "cleaned"]
  /\ Reclaim(Live)
  /\ initialized' = FALSE
  /\ it' = First(registered')
  /\ pc' = "free"
  /\ UNCHANGED <<cfg, instance, ruby, rubyopt, exiting, owner, hostHas, late, libraryVars>>

FreeableUnreferenced(o) == o \in dfree \ referenced
Freeable(o) == o \in dfree

ForgetNothing(o) == UNCHANGED dfree
\* dfree and dmark are set to null, so that the VM does not free it again.
ForgetFree(o) == dfree' = dfree \ {o}

SuccessorAfterwards(o) == o
\* The iterator is incremented before the object is freed.
Incremented(o) == Successor(o)

FreeNext ==
  /\ pc = "free" /\ it # End
  /\ it' = Incremented(it)
  /\ IF Freeable(it) THEN Free({it}) /\ ForgetFree(it) ELSE UNCHANGED <<frees, registered, dfree>>
  /\ UNCHANGED <<cfg, pc, apiVars, vmVars, cell, referenced, libraryVars>>

FreeDone ==
  /\ pc = "free" /\ it = End
  /\ registered' = {}
  /\ pc' = IF exiting THEN "close" ELSE "idle"
  /\ UNCHANGED <<cfg, apiVars, vmVars, cell, referenced, dfree, frees, it, libraryVars>>

\* The members of the API are destroyed, the library among them.
CloseLibrary ==
  /\ pc = "close"
  /\ Close("api")
  /\ instance' = "destroyed" /\ initialized' = FALSE
  /\ pc' = "idle"
  /\ UNCHANGED <<cfg, ruby, rubyopt, exiting, vmVars, objVars>>

-----------------------------------------------------------------------------
(* The host.                                                               *)

\* A host may load its Ruby and bring up its VM at any time; ruby_init leaves a
\* VM that is up alone.
HostLoads ==
  /\ pc = "idle" /\ cfg.later /\ cfg.host # "none"
  /\ ~hostHas /\ vm[HostRuby] # "cleaned"
  /\ hostHas' = TRUE
  /\ refs' = Opened(refs, HostRuby)
  /\ visible' = IF cfg.host = "global" THEN visible \cup {HostRuby} ELSE visible
  /\ vm' = [vm EXCEPT ![HostRuby] = "up"]
  /\ IF vm[HostRuby] = "up" THEN UNCHANGED <<owner, late>>
     ELSE owner' = [owner EXCEPT ![HostRuby] = "host"] /\ late' = (instance # "none")
  /\ UNCHANGED <<cfg, pc, apiVars, objVars, platform, loadable, lib>>

\* The host's own ruby_cleanup.
HostCleansUp ==
  /\ pc = "idle" /\ Unconstructed = {}
  /\ owner[HostRuby] = "host" /\ vm[HostRuby] = "up"
  /\ vm' = [vm EXCEPT ![HostRuby] = "cleaned"]
  /\ Reclaim(IF ruby = HostRuby THEN Live ELSE {})
  /\ UNCHANGED <<cfg, pc, apiVars, owner, hostHas, late, it, libraryVars>>

HostUnloads ==
  /\ pc = "idle" /\ hostHas /\ vm[HostRuby] = "cleaned"
  /\ hostHas' = FALSE
  /\ Counts(Released(refs, HostRuby))
  /\ UNCHANGED <<cfg, pc, apiVars, vm, owner, late, objVars, platform, loadable, lib>>

\* The process may end once the static object is destroyed.
Over == pc = "idle" /\ instance = "destroyed" /\ UNCHANGED vars

Next ==
  \/ GetInstance \/ FindLoaded \/ TryLocation \/ TryVariable \/ TryPath \/ Create
  \/ Initialize \/ SetUp \/ RunOptions \/ GetValues
  \/ Uninitialize \/ Exit \/ Cleanup \/ FreeNext \/ FreeDone \/ CloseLibrary
  \/ HostLoads \/ HostCleansUp \/ HostUnloads \/ Over
  \/ \E o \in Obj : Allocate(o) \/ Register(o) \/ Drop(o) \/ Collect(o)

Spec == Init /\ [][Next]_vars

-----------------------------------------------------------------------------
(* Properties.                                                             *)

Point == {"idle", "find", "location", "variable", "path", "create", "setup", "options",
          "values", "cleanup", "free", "close"}

TypeOK ==
  /\ cfg \in Configs /\ pc \in Point /\ LibraryOK
  /\ instance \in {"none", "made", "destroyed"} /\ ruby \in Library \cup {NoLib}
  /\ vm \in [Library -> {"down", "up", "cleaned"}]
  /\ owner \in [Library -> {"nobody", "host", "api"}]
  /\ {initialized, hostHas, late, exiting} \subseteq BOOLEAN
  /\ rubyopt \in {"none", "bundler", "other", "cleared"}
  /\ cell \in [Obj -> {"none", "live", "reclaimed"}] /\ frees \in [Obj -> Nat]
  /\ referenced \subseteq Live /\ dfree \subseteq Live /\ registered \subseteq Obj
  /\ it \in Obj \cup {End}

\* Every handle of a library belongs to the host or to one dynamic_library
\* object: moving, searching and failing neither leak a handle nor close one
\* that another object still has.
HandlesOwned ==
  \A l \in Library :
    refs[l] = Cardinality(Owned(l)) + IF l = HostRuby /\ hostHas THEN 1 ELSE 0

\* As long as there is an API whose handle is of a library - one that it loaded,
\* or on Windows one that the host had loaded and that it was found by the name
\* of - the functions that it calls are there, whatever the host unloads.  The
\* handle of the program that find_by_symbol gives on POSIX holds no library, and
\* nothing is promised of it.
LibraryHeld == instance = "made" /\ lib["api"].handle # Program => refs[ruby] > 0

\* Unless a Ruby was loaded already, the library is the first one that loads, of
\* ruby_lib_location, LEATHERMAN_RUBY and the ruby on the path; instance() finds
\* none only if none of them loads.  Of a ruby_lib_location that does not load
\* ("specified by the user, fix to that", after which the code goes on to the
\* other places) only this is said, that it is not what is found.
Places == <<cfg.location, cfg.variable, cfg.path>>
FoundLoaded == lib["search"].handle = Program \/ (lib["search"].handle = HostRuby /\ hostHas)
Fixed == cfg.location # NoLib /\ cfg.location \notin loadable

ChoosesFirst ==
  pc = "create" /\ ~FoundLoaded =>
    \/ \E i \in 1..3 :
         /\ lib["search"].handle = Places[i] /\ Places[i] \in loadable
         /\ \A j \in 1..(i - 1) : Places[j] \notin loadable
    \/ ~IsLoaded("search") /\ (Fixed \/ \A i \in 1..3 : Places[i] \notin loadable)

\* The library that the API calls is the right one, it is there as long as the
\* API is, and nobody's handle of it is lost or closed.
LibrarySound == TypeOK /\ HandlesOwned /\ LibraryHeld /\ ChoosesFirst

\* ruby_cleanup is called only for a VM that is up and that the API itself
\* brought up.  That rests on first_load, which was found when the library was
\* loaded, and so it fails in two cases: on POSIX a host's Ruby that is not
\* visible is not seen, and a host may bring its VM up in the library of the API
\* after instance() and before initialize.
Seen == ~(platform = "posix" /\ cfg.host = "local") /\ ~late

OwnVmOnly == pc = "cleanup" /\ Seen => vm[ruby] = "up" /\ owner[ruby] = "api"

\* No native object is freed twice, whoever frees it: the collector, a cleanup
\* of the VM, or uninitialize while the host's VM goes on.
FreedOnce == \A o \in Obj : frees[o] <= 1

\* Once the API is destroyed, all native objects of Ruby are freed, and none
\* of their destructors is called later ("API is shutting down; free all
\* remaining data objects").
AllFreed == instance = "destroyed" => \A o \in Obj : cell[o] # "none" => frees[o] = 1

\* While uninitialize goes through the registered objects its iterator is
\* valid and the object at it is still there ("so increment the iterator
\* before freeing").
IteratorValid == pc = "free" /\ it # End => it \in registered /\ cell[it] = "live"

\* Collector, VM and uninitialize free each native object once between them,
\* whichever comes first, and uninitialize survives what they have removed.
ObjectsSound == FreedOnce /\ AllFreed /\ IteratorValid

\* The VM is cleaned up by whom it was brought up, as far as the API can know
\* that from first_load, which is right when a library is loaded.
VmSound == [][FirstLoadRight /\ OwnVmOnly]_vars
=============================================================================
