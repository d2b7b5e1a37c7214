----------------------------- MODULE RubyApiProofs -----------------------------
(***************************************************************************)
(* Theorems about the Ruby API object and its library, for every set of    *)
(* processes, of libraries and of native objects.                          *)
(***************************************************************************)
EXTENDS RubyApi, FiniteSetTheorems, WellFoundedInduction, TLAPS

-----------------------------------------------------------------------------
(* Operators.                                                              *)

\* A set of objects that is not empty has a first one.
LEMMA FirstIsLeast ==
  ASSUME NEW s, s \subseteq Obj
  PROVE  IF s = {} THEN First(s) = End
         ELSE First(s) \in s /\ \A o \in s : First(s) <= o
<1>1. CASE s = {}
  BY <1>1 DEF First
<1>2. CASE s # {}
  <2>1. s \subseteq Nat
    BY ObjAssumption
  <2> DEFINE Less == {p \in Nat \X Nat : p[1] < p[2]}
  <2>a. IsWellFoundedOn(Less, Nat)
    BY NatLessThanWellFounded, Zenon DEF OpToRel
  <2>2. PICK m \in s : \A o \in s : ~(<<o, m>> \in Less)
    BY <1>2, <2>1, <2>a, WFMin, Zenon
  <2>3. \A o \in s : m <= o
    <3> TAKE o \in s
    <3>1. ~(<<o, m>>[1] < <<o, m>>[2])
      BY <2>1, <2>2, <<o, m>> \in Nat \X Nat, Zenon
    <3>2. m \in Nat /\ o \in Nat /\ ~(o < m)
      BY <2>1, <3>1
    <3>3. QED
      BY <3>2
  <2>4. Min(s) \in s /\ \A o \in s : Min(s) <= o
    BY <2>3 DEF Min
  <2>5. QED
    BY <1>2, <2>4 DEF First
<1>3. QED
  BY <1>1, <1>2

One(c) == IF c THEN 1 ELSE 0

\* The number of the objects that own a handle of l.
LEMMA OwnedCount ==
  ASSUME NEW l
  PROVE  Cardinality(Owned(l)) = One(lib["search"].handle = l) + One(lib["api"].handle = l)
<1> DEFINE s == lib["search"].handle = l
           a == lib["api"].handle = l
<1>1. Owned(l) = {o \in {"search", "api"} : lib[o].handle = l}
  BY LibraryAssumption DEF Owned
<1>2. CASE s /\ a
  <2>1. Owned(l) = {"search"} \cup {"api"}
    BY <1>1, <1>2
  <2>2. IsFiniteSet({"search"}) /\ Cardinality({"search"}) = 1
    BY FS_Singleton
  <2>3. Cardinality({"search"} \cup {"api"}) = 2
    BY <2>2, FS_AddElement
  <2>4. QED
    BY <1>2, <2>1, <2>3 DEF One
<1>3. CASE s /\ ~a
  <2>1. Owned(l) = {"search"}
    BY <1>1, <1>3
  <2>2. QED
    BY <1>3, <2>1, FS_Singleton DEF One
<1>4. CASE ~s /\ a
  <2>1. Owned(l) = {"api"}
    BY <1>1, <1>4
  <2>2. Cardinality({"api"}) = 1
    BY FS_Singleton
  <2>3. QED
    BY <1>4, <2>1, <2>2 DEF One
<1>5. CASE ~s /\ ~a
  <2>1. Owned(l) = {}
    BY <1>1, <1>5
  <2>2. QED
    BY <1>5, <2>1, FS_EmptySet DEF One
<1>6. QED
  BY <1>2, <1>3, <1>4, <1>5

-----------------------------------------------------------------------------
(* The inductive invariant.                                                *)

Searching == {"find", "location", "variable", "path", "create"}

\* Where control is, and whether there is an API.
StageInv ==
  /\ pc \in Point /\ instance \in {"none", "made", "destroyed"}
  /\ pc \in Searching => instance = "none"
  /\ pc \in {"setup", "options", "values", "cleanup", "free", "close"} => instance = "made"

\* Each handle is counted once, the object of the search has one only while
\* the API is being made, and ruby is the library of the API's handle.
HandleInv ==
  /\ \A l \in Library :
       refs[l] = One(lib["search"].handle = l) + One(lib["api"].handle = l)
                 + One(l = HostRuby /\ hostHas)
  /\ pc # "create" => lib["search"].handle = NoHandle
  /\ instance # "made" => lib["api"].handle = NoHandle
  /\ \A o \in Holder : lib[o].first => lib[o].handle \in Library
  /\ instance = "made" =>
       /\ lib["api"].handle # NoHandle
       /\ ruby = IF lib["api"].handle = Program THEN HostRuby ELSE lib["api"].handle

\* The part of the type that the library operations see.
HandleType ==
  /\ LibraryOK /\ hostHas \in BOOLEAN
  /\ cfg \in Configs /\ loadable = cfg.loadable /\ platform = cfg.platform

\* The steps that change which library is open where, and the others.
LEMMA LibrarySteps ==
  [Next]_vars =>
    \/ UNCHANGED <<libraryVars, hostHas, ruby>> /\ (instance' = instance)
         /\ (pc' = "create" <=> pc = "create") /\ UNCHANGED cfg
    \/ FindLoaded \/ TryLocation \/ TryVariable \/ TryPath \/ Create \/ CloseLibrary
    \/ HostLoads \/ HostUnloads
<1> SUFFICES ASSUME [Next]_vars
             PROVE  \/ UNCHANGED <<libraryVars, hostHas, ruby>> /\ (instance' = instance)
                         /\ (pc' = "create" <=> pc = "create") /\ UNCHANGED cfg
                    \/ FindLoaded \/ TryLocation \/ TryVariable \/ TryPath \/ Create
                    \/ CloseLibrary \/ HostLoads \/ HostUnloads
  OBVIOUS
<1> QED
  BY DEF Next, GetInstance, Initialize, SetUp, RunOptions, GetValues, Uninitialize, Exit, Leave,
     Cleanup, FreeNext, FreeDone, HostCleansUp, Over, Allocate,
     Register, Drop, Collect, vars, apiVars, vmVars, objVars, libraryVars

\* Control keeps to its points.
LEMMA StageStep == StageInv /\ [Next]_vars => StageInv'
<1> SUFFICES ASSUME StageInv, [Next]_vars PROVE StageInv'
  OBVIOUS
<1> USE DEF StageInv, Point, Searching, apiVars, Leave, Try, Ready
<1>1. CASE GetInstance
  BY <1>1 DEF GetInstance
<1>2. CASE FindLoaded
  BY <1>2 DEF FindLoaded
<1>3. CASE TryLocation
  BY <1>3 DEF TryLocation
<1>4. CASE TryVariable
  BY <1>4 DEF TryVariable
<1>5. CASE TryPath
  BY <1>5 DEF TryPath
<1>6. CASE Create
  BY <1>6 DEF Create
<1>7. CASE Initialize
  BY <1>7 DEF Initialize
<1>8. CASE SetUp
  BY <1>8 DEF SetUp
<1>9. CASE RunOptions
  BY <1>9 DEF RunOptions
<1>10. CASE GetValues
  BY <1>10 DEF GetValues
<1>11. CASE Uninitialize
  BY <1>11 DEF Uninitialize
<1>12. CASE Exit
  BY <1>12 DEF Exit
<1>13. CASE Cleanup
  BY <1>13 DEF Cleanup
<1>14. CASE FreeNext
  BY <1>14 DEF FreeNext
<1>15. CASE FreeDone
  BY <1>15 DEF FreeDone
<1>16. CASE CloseLibrary
  BY <1>16 DEF CloseLibrary
<1>17. CASE HostLoads
  BY <1>17 DEF HostLoads
<1>19. CASE HostCleansUp
  BY <1>19 DEF HostCleansUp
<1>20. CASE HostUnloads
  BY <1>20 DEF HostUnloads
<1>21. ASSUME NEW o \in Obj, Allocate(o) PROVE StageInv'
  BY <1>21 DEF Allocate
<1>22. ASSUME NEW o \in Obj, Register(o) PROVE StageInv'
  BY <1>22 DEF Register
<1>23. ASSUME NEW o \in Obj, Drop(o) PROVE StageInv'
  BY <1>23 DEF Drop
<1>24. ASSUME NEW o \in Obj, Collect(o) PROVE StageInv'
  BY <1>24 DEF Collect
<1>25. CASE Over \/ UNCHANGED vars
  BY <1>25 DEF Over, vars
<1> QED
  BY <1>1, <1>2, <1>3, <1>4, <1>5, <1>6, <1>7, <1>8, <1>9, <1>10, <1>11, <1>12, <1>13,
  <1>14, <1>15, <1>16, <1>17, <1>19, <1>20, <1>21, <1>22, <1>23, <1>24, <1>25 DEF
  Next

\* Loading a library for the object of the search, which has none.
LEMMA LoadStep ==
  ASSUME HandleType, HandleInv, NEW l \in Library, lib["search"].handle = NoHandle,
         pc' # "create" => lib'["search"].handle = NoHandle, instance # "made",
         Load("search", l), UNCHANGED <<cfg, instance, ruby, hostHas>>
  PROVE  HandleType' /\ HandleInv'
<1> USE LibraryAssumption DEF HandleType, HandleInv, LibraryOK
<1>1. Released(refs, lib["search"].handle) = refs
  BY DEF Released
<1>2. lib["api"].handle = NoHandle /\ ~lib["api"].first
  OBVIOUS
<1>3. CASE l \in loadable
  <2>1. /\ refs' = [refs EXCEPT ![l] = @ + 1] /\ visible' = {k \in visible : refs'[k] > 0}
        /\ lib' = [lib EXCEPT !["search"] = [handle |-> l, first |-> IsFirst(refs, l)]]
        /\ platform' = platform /\ loadable' = loadable
    BY <1>1, <1>3 DEF Load, Counts, Opened, Becomes
  <2>2. IsFirst(refs, l) \in BOOLEAN
    BY DEF IsFirst
  <2>3. lib' \in [Holder -> [handle : Handles, first : BOOLEAN]]
    BY <2>1, <2>2 DEF Handles
  <2>4. refs' \in [Library -> Nat] /\ visible' \subseteq {k \in Library : refs'[k] > 0}
    BY <2>1
  <2>5. \A k \in Library :
          refs'[k] = One(lib'["search"].handle = k) + One(lib'["api"].handle = k)
                     + One(k = HostRuby /\ hostHas)
    BY <2>1, <1>2 DEF One
  <2>6. lib'["search"].handle = l /\ lib'["api"] = lib["api"]
    BY <2>1
  <2>7. QED
    BY <2>1, <2>3, <2>4, <2>5, <2>6, <1>2
<1>4. CASE l \notin loadable
  <2>1. /\ refs' = refs /\ visible' = {k \in visible : refs[k] > 0}
        /\ lib' = [lib EXCEPT !["search"] = [handle |-> NoHandle, first |-> FALSE]]
        /\ platform' = platform /\ loadable' = loadable
    BY <1>1, <1>4 DEF Load, Counts, Becomes
  <2>2. lib' \in [Holder -> [handle : Handles, first : BOOLEAN]]
    BY <2>1 DEF Handles
  <2>3. lib'["search"].handle = NoHandle /\ lib'["api"] = lib["api"] /\ ~lib'["search"].first
    BY <2>1
  <2>4. visible' \subseteq {k \in Library : refs'[k] > 0}
    BY <2>1
  <2>5. \A k \in Library :
          refs'[k] = One(lib'["search"].handle = k) + One(lib'["api"].handle = k)
                     + One(k = HostRuby /\ hostHas)
    BY <2>1, <2>3
  <2>6. QED
    BY <2>1, <2>2, <2>3, <2>4, <2>5, <1>2
<1>5. QED
  BY <1>3, <1>4

\* One of the places to look.
LEMMA TryStep ==
  ASSUME StageInv, HandleType, HandleInv, NEW l \in Library \cup {NoLib},
         NEW next \in {"variable", "path", "create"}, pc \in Searching, pc # "create", Try(l, next)
  PROVE  HandleType' /\ HandleInv'
<1>1. lib["search"].handle = NoHandle /\ instance # "made"
  BY DEF HandleInv, StageInv
<1>2. UNCHANGED <<cfg, instance, ruby, hostHas>>
  BY DEF Try, apiVars, vmVars
<1>3. pc' = IF lib'["search"].handle # NoHandle THEN "create" ELSE next
  BY DEF Try
<1>4. CASE l = NoLib
  BY <1>1, <1>2, <1>3, <1>4 DEF Try, libraryVars, HandleType, LibraryOK, HandleInv
<1>5. CASE l # NoLib
  BY <1>1, <1>2, <1>3, <1>5, LoadStep DEF Try
<1>6. QED
  BY <1>4, <1>5

\* What a process is configured with.
LEMMA CfgType ==
  ASSUME cfg \in Configs
  PROVE  /\ cfg.location \in Library \cup {NoLib} /\ cfg.variable \in Library \cup {NoLib}
         /\ cfg.path \in Library \cup {NoLib} /\ cfg.host \in {"none", "local", "global"}
         /\ cfg.platform \in {"posix", "windows"} /\ cfg.loadable \subseteq Library
  BY ConfigAssumption DEF Config

\* Handles are neither lost nor closed twice.
LEMMA HandleStep ==
  StageInv /\ HandleType /\ HandleInv /\ [Next]_vars => HandleType' /\ HandleInv'
<1> SUFFICES ASSUME StageInv, HandleType, HandleInv, [Next]_vars PROVE HandleType' /\ HandleInv'
  OBVIOUS
<1>a. cfg \in Configs
  BY DEF HandleType
<1>1. CASE UNCHANGED <<libraryVars, hostHas, ruby>> /\ (instance' = instance)
         /\ (pc' = "create" <=> pc = "create") /\ UNCHANGED cfg
  BY <1>1 DEF HandleType, HandleInv, LibraryOK, libraryVars
<1>2. CASE FindLoaded
  <2> USE LibraryAssumption DEF HandleType, HandleInv, LibraryOK
  <2>1. /\ lib["search"].handle = NoHandle /\ instance # "made" /\ instance' = instance
        /\ ruby' = ruby /\ hostHas' = hostHas /\ cfg' = cfg
        /\ pc' = IF lib'["search"].handle # NoHandle THEN "create" ELSE "location"
    BY <1>2 DEF FindLoaded, StageInv, Searching, apiVars, vmVars
  <2>2. lib["api"].handle = NoHandle /\ ~lib["api"].first
    BY <2>1
  <2>3. ASSUME refs[HostRuby] > 0, Counts(Opened(refs, HostRuby)),
               Becomes("search", HostRuby, FALSE), UNCHANGED <<platform, loadable>>
        PROVE  HandleType' /\ HandleInv'
    <3>1. /\ refs' = [refs EXCEPT ![HostRuby] = @ + 1]
          /\ visible' = {k \in visible : refs'[k] > 0}
          /\ lib' = [lib EXCEPT !["search"] = [handle |-> HostRuby, first |-> FALSE]]
      BY <2>3 DEF Counts, Opened, Becomes
    <3>2. lib' \in [Holder -> [handle : Handles, first : BOOLEAN]]
      BY <3>1 DEF Handles
    <3>3. refs' \in [Library -> Nat] /\ visible' \subseteq {k \in Library : refs'[k] > 0}
      BY <3>1
    <3>4. \A k \in Library :
            refs'[k] = One(lib'["search"].handle = k) + One(lib'["api"].handle = k)
                       + One(k = HostRuby /\ hostHas)
      BY <3>1, <2>1, <2>2 DEF One
    <3>5. lib'["search"].handle = HostRuby /\ lib'["api"] = lib["api"] /\ ~lib'["search"].first
      BY <3>1
    <3>6. QED
      BY <2>1, <2>2, <2>3, <3>2, <3>3, <3>4, <3>5
  <2>4. ASSUME NEW h \in {NoHandle, Program}, Counts(refs), Becomes("search", h, FALSE),
               UNCHANGED <<platform, loadable>>
        PROVE  HandleType' /\ HandleInv'
    <3>1. /\ refs' = refs /\ visible' = {k \in visible : refs'[k] > 0}
          /\ lib' = [lib EXCEPT !["search"] = [handle |-> h, first |-> FALSE]]
      BY <2>4 DEF Counts, Becomes
    <3>2. lib' \in [Holder -> [handle : Handles, first : BOOLEAN]]
      BY <3>1 DEF Handles
    <3>3. visible' \subseteq {k \in Library : refs'[k] > 0}
      BY <3>1
    <3>4. lib'["search"].handle = h /\ lib'["api"] = lib["api"] /\ ~lib'["search"].first
      BY <3>1
    <3>5. \A k \in Library :
            refs'[k] = One(lib'["search"].handle = k) + One(lib'["api"].handle = k)
                       + One(k = HostRuby /\ hostHas)
      BY <3>1, <3>4, <2>1
    <3>6. QED
      BY <2>1, <2>2, <2>4, <3>1, <3>2, <3>3, <3>4, <3>5
  <2>5. QED
    BY <1>2, <2>3, <2>4 DEF FindLoaded, FindByPattern, FindBySymbol
<1>3. CASE TryLocation
  BY <1>a, <1>3, CfgType, TryStep DEF TryLocation, Searching
<1>4. CASE TryVariable
  BY <1>a, <1>4, CfgType, TryStep DEF TryVariable, Searching
<1>5. CASE TryPath
  BY <1>a, <1>5, CfgType, TryStep DEF TryPath, Searching
<1>6. CASE Create
  <2> USE LibraryAssumption DEF HandleType, HandleInv, LibraryOK
  <2>1. /\ instance # "made" /\ hostHas' = hostHas /\ cfg' = cfg /\ pc' = "idle"
        /\ platform' = platform /\ loadable' = loadable
    BY <1>6 DEF Create, StageInv, Searching, vmVars, Move, Close
  <2>2. lib["api"].handle = NoHandle /\ ~lib["api"].first
    BY <2>1
  <2>3. ASSUME IsLoaded("search"), Move("api", "search"), instance' = "made",
               ruby' = IF lib["search"].handle = Program THEN HostRuby ELSE lib["search"].handle
        PROVE  HandleType' /\ HandleInv'
    <3>1. /\ refs' = refs /\ visible' = {k \in visible : refs'[k] > 0}
          /\ lib' = [lib EXCEPT !["api"] = lib["search"], !["search"] = Unloaded]
      BY <2>2, <2>3 DEF Move, Counts, Released
    <3>2. lib'["search"] = Unloaded /\ lib'["api"] = lib["search"]
      BY <3>1
    <3>3. lib' \in [Holder -> [handle : Handles, first : BOOLEAN]]
      BY <3>1 DEF Handles, Unloaded
    <3>4. visible' \subseteq {k \in Library : refs'[k] > 0}
      BY <3>1
    <3>5. \A k \in Library :
            refs'[k] = One(lib'["search"].handle = k) + One(lib'["api"].handle = k)
                       + One(k = HostRuby /\ hostHas)
      BY <3>1, <3>2, <2>2 DEF Unloaded, One
    <3>6. QED
      BY <2>1, <2>3, <3>1, <3>2, <3>3, <3>4, <3>5 DEF IsLoaded, Unloaded
  <2>4. CASE Close("search") /\ UNCHANGED <<instance, ruby>>
    <3>1. lib["search"].handle \in Handles
      OBVIOUS
    <3>2. lib["search"].handle \in Library => refs[lib["search"].handle] > 0
      BY <2>2 DEF One
    <3>3. /\ refs' = Released(refs, lib["search"].handle)
          /\ visible' = {k \in visible : refs'[k] > 0}
          /\ lib' = [lib EXCEPT !["search"] = Unloaded]
      BY <2>4 DEF Close, Counts, Becomes, Unloaded
    <3>4. lib'["search"] = Unloaded /\ lib'["api"] = lib["api"]
      BY <3>3
    <3>5. lib' \in [Holder -> [handle : Handles, first : BOOLEAN]]
      BY <3>3 DEF Handles, Unloaded
    <3>6. refs' \in [Library -> Nat] /\ visible' \subseteq {k \in Library : refs'[k] > 0}
      BY <3>2, <3>3 DEF Released
    <3>7. \A k \in Library :
            refs'[k] = One(lib'["search"].handle = k) + One(lib'["api"].handle = k)
                       + One(k = HostRuby /\ hostHas)
      BY <3>2, <3>3, <3>4, <2>1, <2>2 DEF Released, Unloaded, One
    <3>8. QED
      BY <2>1, <2>2, <2>4, <3>4, <3>5, <3>6, <3>7 DEF Unloaded
  <2>5. QED
    BY <1>6, <2>3, <2>4 DEF Create
<1>7. CASE CloseLibrary
  <2> USE LibraryAssumption DEF HandleType, HandleInv, LibraryOK
  <2>1. /\ instance' = "destroyed" /\ hostHas' = hostHas /\ cfg' = cfg /\ pc # "create"
        /\ platform' = platform /\ loadable' = loadable
    BY <1>7 DEF CloseLibrary, vmVars, Close
  <2>2. lib["search"].handle = NoHandle /\ ~lib["search"].first
    BY <2>1
  <2>3. lib["api"].handle \in Library => refs[lib["api"].handle] > 0
    BY <2>2 DEF One
  <2>4. /\ refs' = Released(refs, lib["api"].handle)
        /\ visible' = {k \in visible : refs'[k] > 0}
        /\ lib' = [lib EXCEPT !["api"] = Unloaded]
    BY <1>7 DEF CloseLibrary, Close, Counts, Becomes, Unloaded
  <2>5. lib'["api"] = Unloaded /\ lib'["search"] = lib["search"]
    BY <2>4
  <2>6. lib' \in [Holder -> [handle : Handles, first : BOOLEAN]]
    BY <2>4 DEF Handles, Unloaded
  <2>7. refs' \in [Library -> Nat] /\ visible' \subseteq {k \in Library : refs'[k] > 0}
    BY <2>3, <2>4 DEF Released
  <2>8. \A k \in Library :
          refs'[k] = One(lib'["search"].handle = k) + One(lib'["api"].handle = k)
                     + One(k = HostRuby /\ hostHas)
    BY <2>2, <2>3, <2>4, <2>5, <2>1 DEF Released, Unloaded, One
  <2>9. QED
    BY <2>1, <2>2, <2>5, <2>6, <2>7, <2>8 DEF Unloaded
<1>8. CASE HostUnloads
  <2> USE LibraryAssumption DEF HandleType, HandleInv, LibraryOK
  <2>1. /\ hostHas /\ ~hostHas' /\ hostHas' = FALSE /\ pc # "create" /\ lib' = lib
        /\ UNCHANGED <<cfg, platform, loadable, pc, instance, ruby>>
    BY <1>8 DEF HostUnloads, apiVars
  <2>2. refs[HostRuby] > 0
    BY <2>1 DEF One
  <2>3. refs' = [refs EXCEPT ![HostRuby] = @ - 1] /\ visible' = {k \in visible : refs'[k] > 0}
    BY <1>8 DEF HostUnloads, Counts, Released
  <2>4. refs' \in [Library -> Nat] /\ visible' \subseteq {k \in Library : refs'[k] > 0}
    BY <2>2, <2>3
  <2>5. \A k \in Library :
          refs'[k] = One(lib'["search"].handle = k) + One(lib'["api"].handle = k)
                     + One(k = HostRuby /\ hostHas')
    BY <2>1, <2>3 DEF One
  <2>6. QED
    BY <2>1, <2>4, <2>5
<1>9. CASE HostLoads
  <2> USE LibraryAssumption DEF HandleType, HandleInv, LibraryOK
  <2>1. /\ ~hostHas /\ hostHas' = TRUE /\ pc # "create" /\ lib' = lib
        /\ UNCHANGED <<cfg, platform, loadable, pc, instance, ruby>>
    BY <1>9 DEF HostLoads, apiVars
  <2>2. /\ refs' = [refs EXCEPT ![HostRuby] = @ + 1]
        /\ visible' \subseteq visible \cup {HostRuby}
    BY <1>9 DEF HostLoads, Opened
  <2>3. refs' \in [Library -> Nat] /\ visible' \subseteq {k \in Library : refs'[k] > 0}
    BY <2>2
  <2>4. \A k \in Library :
          refs'[k] = One(lib'["search"].handle = k) + One(lib'["api"].handle = k)
                     + One(k = HostRuby /\ hostHas')
    BY <2>1, <2>2 DEF One
  <2>5. QED
    BY <2>1, <2>3, <2>4
<1>10. QED
  BY <1>1, <1>2, <1>3, <1>4, <1>5, <1>6, <1>7, <1>8, <1>9, LibrarySteps

\* A place that was passed does not load, and the places are looked at only if
\* no Ruby was found in the process.
SearchInv ==
  /\ platform = "posix" /\ pc \in {"location", "variable", "path"} => visible = {}
  /\ pc \in {"variable", "path"} => cfg.location \notin loadable
  /\ pc = "path" => cfg.variable \notin loadable
  /\ ChoosesFirst

\* The object of the search has the library l, or the process has none to load.
LEMMA TryHandle ==
  ASSUME HandleType, HandleInv, NEW l \in Library \cup {NoLib}, pc # "create", NEW next, Try(l,
          next)
  PROVE  /\ l \in loadable => lib'["search"].handle = l /\ pc' = "create"
         /\ l \notin loadable => lib'["search"].handle = NoHandle /\ pc' = next
         /\ loadable' = loadable /\ platform' = platform /\ cfg' = cfg
         /\ visible = {} => visible' = {}
<1> USE LibraryAssumption DEF HandleType, LibraryOK
<1>1. lib["search"].handle = NoHandle /\ NoLib \notin loadable /\ NoHandle \notin Library
  BY DEF HandleInv
<1>2. /\ pc' = IF lib'["search"].handle # NoHandle THEN "create" ELSE next
      /\ cfg' = cfg
  BY DEF Try
<1>3. CASE l = NoLib
  BY <1>1, <1>2, <1>3 DEF Try, libraryVars
<1>4. CASE l # NoLib
  <2>1. Load("search", l)
    BY <1>4 DEF Try
  <2>2. /\ l \in loadable => lib'["search"].handle = l
        /\ l \notin loadable => lib'["search"].handle = NoHandle
        /\ loadable' = loadable /\ platform' = platform
    BY <2>1 DEF Load, Becomes
  <2>3. visible = {} => visible' = {}
    BY <2>1 DEF Load, Counts
  <2>4. QED
    BY <1>1, <1>2, <2>2, <2>3
<1>5. QED
  BY <1>3, <1>4

\* The steps before which or after which the API is being made.
LEMMA PlaceSteps ==
  [Next]_vars =>
    \/ FindLoaded \/ TryLocation \/ TryVariable \/ TryPath
    \/ pc' \notin {"location", "variable", "path", "create"}
    \/ UNCHANGED <<libraryVars, cfg, hostHas, pc>>
  BY DEF Next, GetInstance, Create, Initialize, SetUp, RunOptions, GetValues, Uninitialize, Exit,
     Leave, Cleanup, FreeNext, FreeDone, CloseLibrary, HostLoads, HostCleansUp,
     HostUnloads, Over, Allocate, Register, Drop, Collect, Ready, vars, vmVars, libraryVars

\* The places are looked at in their order.
LEMMA SearchStep ==
  StageInv /\ HandleType /\ HandleInv /\ SearchInv /\ [Next]_vars => SearchInv'
<1> SUFFICES ASSUME StageInv, HandleType, HandleInv, SearchInv, [Next]_vars PROVE SearchInv'
  OBVIOUS
<1>a. /\ cfg.location \in Library \cup {NoLib} /\ cfg.variable \in Library \cup {NoLib}
      /\ cfg.path \in Library \cup {NoLib}
  BY CfgType DEF HandleType
<1>b. /\ Places[1] = cfg.location /\ Places[2] = cfg.variable /\ Places[3] = cfg.path
      /\ Places'[1] = cfg'.location /\ Places'[2] = cfg'.variable /\ Places'[3] = cfg'.path
  BY DEF Places
<1>c. 1..3 = {1, 2, 3} /\ 1..(1 - 1) = {} /\ 1..(2 - 1) = {1} /\ 1..(3 - 1) = {1, 2}
  OBVIOUS
<1>1. CASE FindLoaded
  <2>1. /\ hostHas' = hostHas /\ lib["search"].handle = NoHandle /\ lib["api"].handle = NoHandle
        /\ lib' = [lib EXCEPT !["search"] = lib'["search"]]
        /\ pc' = IF lib'["search"].handle # NoHandle THEN "create" ELSE "location"
    BY <1>1 DEF FindLoaded, HandleInv, StageInv, Searching, vmVars, FindByPattern, FindBySymbol,
         Becomes, HandleType, LibraryOK
  <2>2. CASE lib'["search"].handle = HostRuby
    <3>1. refs[HostRuby] > 0
      BY <1>1, <2>2, LibraryAssumption DEF FindLoaded, FindByPattern, FindBySymbol, Becomes,
           HandleType, LibraryOK
    <3>2. hostHas
      BY <2>1, <3>1, LibraryAssumption DEF HandleInv, One
    <3>3. QED
      BY <2>1, <2>2, <3>2, LibraryAssumption DEF SearchInv, ChoosesFirst, FoundLoaded
  <2>3. CASE lib'["search"].handle = Program
    BY <2>1, <2>3 DEF SearchInv, ChoosesFirst, FoundLoaded, NoHandle, Program
  <2>4. CASE lib'["search"].handle = NoHandle
    <3>1. platform = "posix" => visible = {}
      <4>1. visible \subseteq Library
        BY DEF HandleType, LibraryOK
      <4>2. platform = "posix" /\ visible \cap Library # {} => lib'["search"].handle = Program
        BY <1>1, LibraryAssumption DEF FindLoaded, FindBySymbol, Becomes, HandleType, LibraryOK
      <4>3. QED
        BY <2>4, <4>1, <4>2 DEF NoHandle, Program
    <3>2. platform' = platform /\ (platform = "posix" /\ visible = {} => visible' = {})
      BY <1>1 DEF FindLoaded, FindBySymbol, FindByPattern, Counts
    <3>3. QED
      BY <2>1, <2>4, <3>1, <3>2 DEF SearchInv, ChoosesFirst
  <2>5. lib'["search"].handle \in {HostRuby, Program, NoHandle}
    BY <1>1, LibraryAssumption DEF FindLoaded, FindByPattern, FindBySymbol, Becomes, HandleType,
         LibraryOK
  <2>6. QED
    BY <2>2, <2>3, <2>4, <2>5
<1>2. CASE TryLocation
  <2>1. pc = "location" /\ Try(cfg.location, "variable")
    BY <1>2 DEF TryLocation
  <2>2. CASE cfg.location \in loadable
    <3>1. /\ lib'["search"].handle = Places'[1] /\ Places'[1] \in loadable' /\ pc' = "create"
          /\ \A j \in 1..(1 - 1) : Places'[j] \notin loadable'
      BY <2>1, <2>2, <1>a, <1>b, <1>c, TryHandle DEF SearchInv
    <3>2. QED
      BY <3>1, <1>c DEF SearchInv, ChoosesFirst
  <2>3. CASE cfg.location \notin loadable
    BY <2>1, <2>3, <1>a, TryHandle DEF SearchInv, ChoosesFirst
  <2>4. QED
    BY <2>2, <2>3
<1>3. CASE TryVariable
  <2>1. pc = "variable" /\ Try(cfg.variable, "path")
    BY <1>3 DEF TryVariable
  <2>2. CASE cfg.variable \in loadable
    <3>1. /\ lib'["search"].handle = Places'[2] /\ Places'[2] \in loadable' /\ pc' = "create"
          /\ \A j \in 1..(2 - 1) : Places'[j] \notin loadable'
      BY <2>1, <2>2, <1>a, <1>b, <1>c, TryHandle DEF SearchInv
    <3>2. QED
      BY <3>1, <1>c DEF SearchInv, ChoosesFirst
  <2>3. CASE cfg.variable \notin loadable
    BY <2>1, <2>3, <1>a, TryHandle DEF SearchInv, ChoosesFirst
  <2>4. QED
    BY <2>2, <2>3
<1>4. CASE TryPath
  <2>1. pc = "path" /\ Try(cfg.path, "create")
    BY <1>4 DEF TryPath
  <2>2. /\ pc' = "create" /\ loadable' = loadable /\ cfg' = cfg
        /\ cfg.location \notin loadable /\ cfg.variable \notin loadable
    BY <2>1, <1>a, TryHandle DEF SearchInv
  <2>3. CASE cfg.path \in loadable
    <3>1. /\ lib'["search"].handle = Places'[3] /\ Places'[3] \in loadable'
          /\ \A j \in 1..(3 - 1) : Places'[j] \notin loadable'
      BY <2>1, <2>2, <2>3, <1>a, <1>b, <1>c, TryHandle
    <3>2. QED
      BY <2>2, <3>1, <1>c DEF SearchInv, ChoosesFirst
  <2>4. CASE cfg.path \notin loadable
    <3>1. lib'["search"].handle = NoHandle
      BY <2>1, <2>4, <1>a, TryHandle
    <3>2. \A i \in 1..3 : Places'[i] \notin loadable'
      BY <2>2, <2>4, <1>b, <1>c
    <3>3. QED
      BY <2>2, <3>1, <3>2 DEF SearchInv, ChoosesFirst, IsLoaded
  <2>5. QED
    BY <2>3, <2>4
<1>5. CASE pc' \notin {"location", "variable", "path", "create"}
  BY <1>5 DEF SearchInv, ChoosesFirst
<1>6. CASE UNCHANGED <<libraryVars, cfg, hostHas, pc>>
  BY <1>6 DEF SearchInv, ChoosesFirst, FoundLoaded, Places, Fixed, IsLoaded, libraryVars
<1>7. QED
  BY <1>1, <1>2, <1>3, <1>4, <1>5, <1>6, PlaceSteps

\* An object for which first_load is true got that from another, or has just
\* loaded a library that was not open, or, on POSIX, when none was visible.
FreshOrMoved(o) ==
  lib'[o].first =>
    /\ lib'[o].handle \in Library
    /\ \/ \E p \in Holder : lib[p].first /\ lib[p].handle = lib'[o].handle
       \/ refs[lib'[o].handle] = 0
       \/ platform = "posix" /\ visible = {}

\* Where first_load comes from.
LEMMA FirstSteps ==
  ASSUME StageInv, HandleType, HandleInv, SearchInv, [Next]_vars, NEW o \in Holder
  PROVE  FreshOrMoved(o)
<1> USE LibraryAssumption DEF HandleType, HandleInv, LibraryOK, FreshOrMoved
<1>1. ASSUME NEW l \in Library \cup {NoLib}, NEW next, Try(l, next), StageInv,
        pc \in {"location", "variable", "path"}
      PROVE  FreshOrMoved(o)
  <2>1. CASE l = NoLib
    BY <1>1, <2>1 DEF Try, libraryVars
  <2>2. CASE l # NoLib /\ l \in loadable
    <3>1. lib' = [lib EXCEPT !["search"] = [handle |-> l, first |-> IsFirst(refs, l)]]
      BY <1>1, <2>2 DEF Try, Load, Released, Becomes
    <3>2. lib'["search"].handle = l /\ lib'["search"].first = IsFirst(refs, l)
            /\ lib'["api"] = lib["api"]
      BY <3>1
    <3>3. platform = "posix" => visible = {}
      BY <1>1 DEF SearchInv
    <3>4. IsFirst(refs, l) => refs[l] = 0 \/ platform = "posix"
      BY DEF IsFirst
    <3>5. QED
      BY <1>1, <2>2, <3>2, <3>3, <3>4
  <2>3. CASE l # NoLib /\ l \notin loadable
    <3>1. lib' = [lib EXCEPT !["search"] = [handle |-> NoHandle, first |-> FALSE]]
      BY <1>1, <2>3 DEF Try, Load, Becomes
    <3>2. QED
      BY <3>1
  <2>4. QED
    BY <2>1, <2>2, <2>3
<1>2. CASE UNCHANGED libraryVars
  BY <1>2 DEF libraryVars
<1>3. CASE FindLoaded
  <2>1. \E h \in Handles : lib' = [lib EXCEPT !["search"] = [handle |-> h, first |-> FALSE]]
    BY <1>3 DEF FindLoaded, FindByPattern, FindBySymbol, Becomes, Handles
  <2>2. QED
    BY <2>1
<1>4. CASE TryLocation \/ TryVariable \/ TryPath
  BY <1>1, <1>4, CfgType DEF TryLocation, TryVariable, TryPath
<1>5. CASE Create
  <2>1. \/ lib' = [lib EXCEPT !["api"] = lib["search"], !["search"] = Unloaded]
        \/ lib' = [lib EXCEPT !["search"] = Unloaded]
    BY <1>5 DEF Create, Move, Close, Becomes, Unloaded
  <2>2. QED
    BY <2>1 DEF Unloaded
<1>6. CASE CloseLibrary
  <2>1. lib' = [lib EXCEPT !["api"] = Unloaded]
    BY <1>6 DEF CloseLibrary, Close, Becomes, Unloaded
  <2>2. QED
    BY <2>1 DEF Unloaded
<1>7. CASE HostLoads \/ HostUnloads
  BY <1>7 DEF HostLoads, HostUnloads
<1>8. QED
  BY <1>2, <1>3, <1>4, <1>5, <1>6, <1>7, LibrarySteps

\* The host's Ruby is up in l and the host will clean it up.
HostsUp(l) == owner[l] = "host" /\ vm[l] = "up"

VmType ==
  /\ ruby \in Library \cup {NoLib} /\ initialized \in BOOLEAN
  /\ vm \in [Library -> {"down", "up", "cleaned"}]
  /\ owner \in [Library -> {"nobody", "host", "api"}]

\* A library that the API was the first to load has no VM of the host's.
HostVm ==
  /\ \A l \in Library : owner[l] = "nobody" <=> vm[l] = "down"
  /\ \A l \in Library : HostsUp(l) => l = HostRuby /\ hostHas
  /\ hostHas => cfg.host # "none"
  /\ cfg.host = "global" /\ hostHas => HostRuby \in visible
  /\ Seen => \A o \in Holder : lib[o].first => ~HostsUp(lib[o].handle)

\* What the API has initialized is up, unless the host has cleaned it up.
ApiVm ==
  /\ pc = "setup" => vm[ruby] # "cleaned"
  /\ pc \in {"options", "values"} => vm[ruby] = "up"
  /\ initialized /\ lib["api"].first /\ Seen => vm[ruby] = "up"
  /\ initialized => instance = "made" /\ vm[ruby] # "down"
  /\ pc = "cleanup" => initialized /\ lib["api"].first

VmInv == HostVm /\ ApiVm

\* While there is an API the functions it calls are of a library.
LEMMA RubyThere ==
  ASSUME HandleType, HandleInv, instance = "made"
  PROVE  ruby \in Library /\ (lib["api"].first => ruby = lib["api"].handle)
<1>1. lib["api"].handle \in Handles
  BY LibraryAssumption DEF HandleType, LibraryOK
<1>2. QED
  BY <1>1, LibraryAssumption DEF HandleInv, Handles, HandleType, LibraryOK

\* No VM becomes the host's unless it loads its Ruby.
LEMMA HostsUpShrinks ==
  ASSUME StageInv, HandleType, HandleInv, VmType, [Next]_vars, ~HostLoads, NEW l \in Library
  PROVE  owner'[l] = "host" /\ vm'[l] = "up" => HostsUp(l)
<1>1. CASE UNCHANGED <<vm, owner>>
  BY <1>1 DEF HostsUp
<1>2. CASE SetUp
  <2>1. ruby \in Library
    BY <1>2, RubyThere DEF SetUp, StageInv
  <2>2. QED
    BY <1>2, <2>1 DEF SetUp, HostsUp, VmType
<1>3. CASE Cleanup
  <2>1. ruby \in Library
    BY <1>3, RubyThere DEF Cleanup, StageInv
  <2>2. QED
    BY <1>3, <2>1 DEF Cleanup, HostsUp, VmType
<1>4. CASE HostCleansUp
  BY <1>4, LibraryAssumption DEF HostCleansUp, HostsUp, VmType
<1>5. QED
  BY <1>1, <1>2, <1>3, <1>4 DEF Next, GetInstance, FindLoaded, TryLocation, TryVariable, TryPath,
     Try, Create, Initialize, RunOptions, GetValues, Uninitialize, Exit, Leave, FreeNext, FreeDone,
     CloseLibrary, HostUnloads, Over, Allocate, Register, Drop, Collect,
     vars, vmVars

\* A host that has loaded its Ruby can be seen by those who look for it, and it
\* came late only if there was an API.
LEMMA HostLoadsStep ==
  ASSUME StageInv, HandleType, HandleInv, VmType, VmInv, HostLoads
  PROVE  VmType' /\ VmInv'
<1>1. /\ ~hostHas /\ hostHas' = TRUE /\ cfg.host # "none" /\ vm[HostRuby] # "cleaned"
      /\ vm' = [vm EXCEPT ![HostRuby] = "up"] /\ pc = "idle"
      /\ visible' = IF cfg.host = "global" THEN visible \cup {HostRuby} ELSE visible
      /\ UNCHANGED <<cfg, pc, platform, lib, instance, ruby, initialized>>
  BY DEF HostLoads, apiVars
<1>2. CASE vm[HostRuby] = "up"
  <2>1. vm' = vm /\ owner' = owner /\ late' = late
    BY <1>1, <1>2 DEF HostLoads, VmType
  <2>2. Seen' = Seen
    BY <1>1, <2>1 DEF Seen
  <2>3. VmType' /\ ApiVm'
    BY <1>1, <2>1, <2>2 DEF VmType, VmInv, ApiVm
  <2>4. HostVm'
    BY <1>1, <2>1, <2>2 DEF VmInv, HostVm, HostsUp
  <2>5. QED
    BY <2>3, <2>4 DEF VmInv
<1>3. CASE vm[HostRuby] # "up"
  <2>1. owner' = [owner EXCEPT ![HostRuby] = "host"] /\ late' = (instance # "none")
    BY <1>3 DEF HostLoads
  <2>2. VmType'
    BY <1>1, <2>1, LibraryAssumption DEF VmType
  <2>3. Seen' => \A o \in Holder : ~lib[o].first
    <3>1. CASE instance = "none"
      <4>1. \A o \in Holder : lib[o].handle = NoHandle
        BY <1>1, <3>1, LibraryAssumption DEF HandleInv
      <4>2. \A o \in Holder : ~lib[o].first
        BY <4>1, LibraryAssumption DEF HandleInv
      <4>3. QED
        BY <4>2
    <3>2. CASE instance # "none"
      BY <2>1, <3>2, Zenon DEF Seen
    <3>3. QED
      BY <3>1, <3>2
  <2>4. HostVm'
    <3>1. \A l \in Library : owner'[l] = "nobody" <=> vm'[l] = "down"
      BY <1>1, <2>1, LibraryAssumption DEF VmInv, HostVm, VmType
    <3>2. \A l \in Library : owner'[l] = "host" /\ vm'[l] = "up" => l = HostRuby
      BY <1>1, <2>1 DEF VmInv, HostVm, HostsUp, VmType
    <3>3. Seen' => \A o \in Holder : ~lib'[o].first
      BY <1>1, <2>3
    <3>4. QED
      BY <1>1, <3>1, <3>2, <3>3 DEF HostVm, HostsUp
  <2>5. ApiVm'
    <3>1. initialized' => instance' = "made" /\ vm'[ruby'] # "down"
      BY <1>1, LibraryAssumption DEF VmInv, ApiVm, VmType
    <3>2. ~(lib'["api"].first /\ Seen')
      BY <1>1, <2>3, LibraryAssumption
    <3>3. pc' = "idle"
      BY <1>1
    <3>4. QED
      BY <3>1, <3>2, <3>3 DEF ApiVm
  <2>6. QED
    BY <2>2, <2>4, <2>5 DEF VmInv
<1>4. QED
  BY <1>2, <1>3

\* The host's handle keeps its library visible.
LEMMA VisibleStep ==
  ASSUME HandleType, HandleInv, VmInv, HandleType', HandleInv', [Next]_vars, ~HostLoads
  PROVE  /\ cfg' = cfg /\ platform' = platform /\ late' = late /\ (hostHas' => hostHas)
         /\ hostHas /\ ~hostHas' => vm'[HostRuby] = "cleaned"
         /\ cfg'.host = "global" /\ hostHas' => HostRuby \in visible'
<1>1. /\ (hostHas' => hostHas) /\ cfg' = cfg
      /\ hostHas /\ ~hostHas' => vm'[HostRuby] = "cleaned"
  <2>1. UNCHANGED <<cfg, hostHas>> \/ HostUnloads
    BY LibrarySteps DEF FindLoaded, TryLocation, TryVariable, TryPath, Try, Create, CloseLibrary,
       vmVars
  <2>2. QED
    BY <2>1 DEF HostUnloads
<1>2. visible' = visible \/ visible' = {l \in visible : refs'[l] > 0}
  BY LibrarySteps DEF libraryVars, Counts, FindLoaded, FindByPattern, FindBySymbol, TryLocation,
     TryVariable, TryPath, Try, Load, Create, Move, Close, CloseLibrary, HostUnloads
<1>3. hostHas' => refs'[HostRuby] > 0
  BY LibraryAssumption DEF HandleInv, HandleType, LibraryOK, One
<1>4. late' = late
  BY DEF Next, GetInstance, FindLoaded, TryLocation, TryVariable, TryPath, Try, Create, Initialize,
     SetUp, RunOptions, GetValues, Uninitialize, Exit, Leave, Cleanup, FreeNext, FreeDone,
     CloseLibrary, HostCleansUp, HostUnloads, Over, Allocate, Register, Drop, Collect, vars, vmVars
<1>5. platform' = platform
  BY <1>1 DEF HandleType
<1>6. QED
  BY <1>1, <1>2, <1>3, <1>4, <1>5 DEF VmInv, HostVm, ApiVm

\* The API and the VMs that are up, in every other step.
LEMMA OtherVmStep ==
  ASSUME StageInv, HandleType, HandleInv, SearchInv, VmType, VmInv, HandleType', HandleInv',
         [Next]_vars, ~HostLoads
  PROVE  VmType' /\ VmInv'
<1>1. Seen' => \A o \in Holder : lib'[o].first => ~(owner'[lib'[o].handle] = "host"
        /\ vm'[lib'[o].handle] = "up")
  <2> SUFFICES ASSUME Seen', NEW o \in Holder, lib'[o].first
               PROVE  ~(owner'[lib'[o].handle] = "host" /\ vm'[lib'[o].handle] = "up")
    OBVIOUS
  <2> DEFINE h == lib'[o].handle
  <2>1. Seen /\ cfg.host \in {"none", "local", "global"}
    <3>1. cfg' = cfg /\ platform' = platform /\ late' = late
      BY VisibleStep
    <3>2. QED
      BY <3>1, CfgType DEF Seen, HandleType
  <2>2. FreshOrMoved(o)
    BY FirstSteps
  <2>3. h \in Library
    BY <2>2 DEF FreshOrMoved
  <2>4. ~HostsUp(h)
    <3>1. CASE \E p \in Holder : lib[p].first /\ lib[p].handle = h
      BY <2>1, <3>1 DEF VmInv, HostVm, ApiVm
    <3>2. CASE refs[h] = 0
      BY <2>3, <3>2 DEF VmInv, HostVm, ApiVm, HandleInv, One
    <3>3. CASE platform = "posix" /\ visible = {}
      BY <2>1, <2>3, <3>3 DEF VmInv, HostVm, ApiVm, Seen
    <3>4. QED
      BY <2>2, <3>1, <3>2, <3>3 DEF FreshOrMoved
  <2>5. QED
    BY <2>3, <2>4, HostsUpShrinks
<1>2. \A l \in Library : owner'[l] = "host" /\ vm'[l] = "up" => l = HostRuby /\ HostsUp(HostRuby)
  BY HostsUpShrinks DEF VmInv, HostVm, ApiVm
<1>3. instance = "made" => ruby \in Library /\ (lib["api"].first => ruby = lib["api"].handle)
  BY RubyThere
<1>4. /\ cfg' = cfg /\ (hostHas' => hostHas)
      /\ hostHas /\ ~hostHas' => vm'[HostRuby] = "cleaned"
      /\ cfg'.host = "global" /\ hostHas' => HostRuby \in visible'
  BY VisibleStep
<1>5. "api" \in Holder /\ HostRuby \in Library
  BY LibraryAssumption
<1>6. VmType'
  <2> USE <1>3, <1>5 DEF VmType, StageInv, Point, Searching, apiVars, vmVars
<2>1. CASE GetInstance
  BY <2>1 DEF GetInstance
<2>2. CASE FindLoaded
  BY <2>2 DEF FindLoaded
<2>3. CASE TryLocation
  BY <2>3 DEF TryLocation, Try
<2>4. CASE TryVariable
  BY <2>4 DEF TryVariable, Try
<2>5. CASE TryPath
  BY <2>5 DEF TryPath, Try
<2>6. CASE Create
  BY <2>6, LibraryAssumption DEF Create, HandleType, LibraryOK, Handles, IsLoaded
<2>7. CASE Initialize
  BY <2>7 DEF Initialize
<2>8. CASE SetUp
  BY <2>8 DEF SetUp
<2>9. CASE RunOptions
  BY <2>9 DEF RunOptions
<2>10. CASE GetValues
  BY <2>10 DEF GetValues
<2>11. CASE Uninitialize
  BY <2>11 DEF Uninitialize, Leave
<2>12. CASE Exit
  BY <2>12 DEF Exit, Leave
<2>13. CASE Cleanup
  BY <2>13 DEF Cleanup
<2>14. CASE FreeNext
  BY <2>14 DEF FreeNext
<2>15. CASE FreeDone
  BY <2>15 DEF FreeDone
<2>16. CASE CloseLibrary
  BY <2>16 DEF CloseLibrary
<2>19. CASE HostCleansUp
  BY <2>19 DEF HostCleansUp
<2>20. CASE HostUnloads
  BY <2>20 DEF HostUnloads
<2>21. ASSUME NEW o \in Obj, Allocate(o) PROVE VmType'
  BY <2>21 DEF Allocate
<2>22. ASSUME NEW o \in Obj, Register(o) PROVE VmType'
  BY <2>22 DEF Register
<2>23. ASSUME NEW o \in Obj, Drop(o) PROVE VmType'
  BY <2>23 DEF Drop
<2>24. ASSUME NEW o \in Obj, Collect(o) PROVE VmType'
  BY <2>24 DEF Collect
<2>25. CASE Over \/ UNCHANGED vars
  BY <2>25 DEF Over, vars
<2> QED
  BY <2>1, <2>2, <2>3, <2>4, <2>5, <2>6, <2>7, <2>8, <2>9, <2>10, <2>11, <2>12, <2>13,
  <2>14, <2>15, <2>16, <2>19, <2>20, <2>21, <2>22, <2>23, <2>24, <2>25 DEF
  Next
<1>7. (\A l \in Library : owner[l] = "nobody" <=> vm[l] = "down")'
  <2>1. CASE UNCHANGED <<vm, owner>>
    BY <2>1 DEF VmInv, HostVm, ApiVm
  <2>2. CASE SetUp
    BY <2>2, <1>3 DEF SetUp, VmInv, HostVm, ApiVm, VmType, StageInv
  <2>3. CASE Cleanup
    BY <2>3, <1>3 DEF Cleanup, VmInv, HostVm, ApiVm, VmType, StageInv
  <2>4. CASE HostCleansUp
    BY <2>4, <1>5 DEF HostCleansUp, HostsUp, VmInv, HostVm, VmType
  <2>5. QED
    BY <2>1, <2>2, <2>3, <2>4 DEF Next, GetInstance, FindLoaded, TryLocation, TryVariable, TryPath,
     Try, Create, Initialize, RunOptions, GetValues, Uninitialize, Exit, Leave, FreeNext, FreeDone,
     CloseLibrary, HostUnloads, Over, Allocate, Register, Drop, Collect,
     vars, vmVars
<1>8. ApiVm'
  <2>a. lib["api"].first /\ Seen => ruby # HostRuby \/ ~HostsUp(HostRuby)
    <3> SUFFICES ASSUME lib["api"].first, Seen PROVE ~HostsUp(lib["api"].handle)
            /\ ruby = lib["api"].handle
      OBVIOUS
    <3>1. instance = "made"
      BY <1>5, LibraryAssumption DEF HandleInv
    <3>2. QED
      BY <1>3, <1>5, <3>1 DEF VmInv, HostVm
  <2> USE <1>3, <1>5 DEF VmInv, ApiVm, VmType, StageInv, Searching, Seen, HandleType, apiVars,
          vmVars, libraryVars
<2>1. CASE GetInstance
  BY <2>1 DEF GetInstance
<2>2. CASE FindLoaded
  BY <2>2 DEF FindLoaded, FindByPattern, FindBySymbol, Becomes
<2>3. CASE TryLocation
  BY <2>3 DEF TryLocation, Try, Load, Becomes
<2>4. CASE TryVariable
  BY <2>4 DEF TryVariable, Try, Load, Becomes
<2>5. CASE TryPath
  BY <2>5 DEF TryPath, Try, Load, Becomes
<2>6. CASE Create
  BY <2>6 DEF Create, Move, Close, Becomes
<2>7. CASE Initialize
  BY <2>7 DEF Initialize
<2>8. CASE SetUp
  BY <2>8 DEF SetUp
<2>9. CASE RunOptions
  BY <2>9 DEF RunOptions
<2>10. CASE GetValues
  BY <2>10 DEF GetValues
<2>11. CASE Uninitialize
  BY <2>11 DEF Uninitialize, Leave, CleansVm
<2>12. CASE Exit
  BY <2>12 DEF Exit, Leave, CleansVm
<2>13. CASE Cleanup
  BY <2>13 DEF Cleanup
<2>14. CASE FreeNext
  BY <2>14 DEF FreeNext
<2>15. CASE FreeDone
  BY <2>15 DEF FreeDone
<2>16. CASE CloseLibrary
  BY <2>16 DEF CloseLibrary, Close, Becomes
<2>19. CASE HostCleansUp
  BY <2>19, <2>a DEF HostCleansUp, HostsUp
<2>20. CASE HostUnloads
  BY <2>20 DEF HostUnloads, Released
<2>21. ASSUME NEW o \in Obj, Allocate(o) PROVE ApiVm'
  BY <2>21 DEF Allocate
<2>22. ASSUME NEW o \in Obj, Register(o) PROVE ApiVm'
  BY <2>22 DEF Register
<2>23. ASSUME NEW o \in Obj, Drop(o) PROVE ApiVm'
  BY <2>23 DEF Drop
<2>24. ASSUME NEW o \in Obj, Collect(o) PROVE ApiVm'
  BY <2>24 DEF Collect
<2>25. CASE Over \/ UNCHANGED vars
  BY <2>25 DEF Over, vars
<2> QED
  BY <2>1, <2>2, <2>3, <2>4, <2>5, <2>6, <2>7, <2>8, <2>9, <2>10, <2>11, <2>12, <2>13,
  <2>14, <2>15, <2>16, <2>19, <2>20, <2>21, <2>22, <2>23, <2>24, <2>25 DEF
  Next
<1>9. HostVm'
  <2>1. \A l \in Library : owner'[l] = "host" /\ vm'[l] = "up" => l = HostRuby /\ hostHas'
    BY <1>2, <1>4, <1>5 DEF VmInv, HostVm
  <2>2. hostHas' => cfg'.host # "none"
    BY <1>4 DEF VmInv, HostVm
  <2>3. QED
    BY <1>1, <1>4, <1>7, <2>1, <2>2 DEF HostVm, HostsUp
<1>10. QED
  BY <1>6, <1>8, <1>9 DEF VmInv

LEMMA VmStep ==
  ASSUME StageInv, HandleType, HandleInv, SearchInv, VmType, VmInv, HandleType', HandleInv',
         [Next]_vars
  PROVE  VmType' /\ VmInv'
BY HostLoadsStep, OtherVmStep

-----------------------------------------------------------------------------
(* The native objects.                                                     *)

ObjectType ==
  /\ cell \in [Obj -> {"none", "live", "reclaimed"}] /\ frees \in [Obj -> Nat]
  /\ referenced \subseteq Live /\ dfree \subseteq Live /\ registered \subseteq dfree

\* An object is freed exactly when Ruby has no dfree of it any more.
FreesInv ==
  \A o \in Obj :
    /\ o \in dfree => frees[o] = 0
    /\ o \notin dfree /\ cell[o] # "none" => frees[o] = 1
    /\ cell[o] = "none" => frees[o] = 0

\* uninitialize goes through the registered objects from the first to the
\* last: those before its iterator are gone, and none is left at the end.
IteratorInv ==
  /\ it \in Obj \cup {End}
  /\ pc \in {"cleanup", "free", "close"} => dfree \subseteq registered
  /\ pc = "free" => IF registered = {} THEN it = End
                    ELSE it \in registered /\ \A o \in registered : it <= o
  /\ pc = "close" => registered = {}
  /\ instance = "destroyed" => dfree = {}

\* Reclaiming frees what still has a dfree.
LEMMA ReclaimStep ==
  ASSUME ObjectType, FreesInv, NEW objects, objects \subseteq Live, Reclaim(objects)
  PROVE  /\ ObjectType' /\ FreesInv'
         /\ dfree' = dfree \ objects /\ registered' = registered \ objects
<1>1. /\ frees' = [o \in Obj |-> IF o \in objects \cap dfree THEN frees[o] + 1 ELSE frees[o]]
      /\ registered' = registered \ (objects \cap dfree)
      /\ cell' = [o \in Obj |-> IF o \in objects THEN "reclaimed" ELSE cell[o]]
      /\ referenced' = referenced \ objects /\ dfree' = dfree \ objects
  BY DEF Reclaim, Free, Unregister
<1>2. registered' = registered \ objects
  BY <1>1 DEF ObjectType
<1>3. Live' = Live \ objects /\ objects \subseteq Obj
  BY <1>1 DEF Live
<1>4. ObjectType'
  BY <1>1, <1>2, <1>3 DEF ObjectType
<1>5. FreesInv'
  BY <1>1, <1>3 DEF FreesInv, ObjectType, Live
<1>6. QED
  BY <1>1, <1>2, <1>4, <1>5

\* The steps that change the objects, or where uninitialize is, and the others.
LEMMA ObjectSteps ==
  [Next]_vars =>
    \/ /\ UNCHANGED objVars
       /\ pc' \in {"cleanup", "free", "close"} => pc' = pc
       /\ instance' = "destroyed" => instance = "destroyed"
    \/ (\E o \in Obj : Allocate(o) \/ Register(o) \/ Drop(o) \/ Collect(o))
    \/ (\E b \in BOOLEAN : Leave(b))
    \/ Cleanup \/ FreeNext \/ FreeDone \/ CloseLibrary \/ HostCleansUp
  BY DEF Next, GetInstance, FindLoaded, TryLocation, TryVariable, TryPath, Try, Create, Initialize,
     SetUp, RunOptions, GetValues, Uninitialize, Exit, HostLoads, HostUnloads, Over,
     vars, apiVars, objVars

\* Every object is freed once, and the iterator stays valid.
LEMMA ObjectStep ==
  ASSUME StageInv, ObjectType, FreesInv, IteratorInv, [Next]_vars
  PROVE  ObjectType' /\ FreesInv' /\ IteratorInv'
<1> DEFINE I == ObjectType /\ FreesInv /\ IteratorInv
<1> SUFFICES I'
  OBVIOUS
<1>0. End \notin Obj
  BY ObjAssumption DEF End
<1>1. CASE /\ UNCHANGED objVars
           /\ pc' \in {"cleanup", "free", "close"} => pc' = pc
           /\ instance' = "destroyed" => instance = "destroyed"
  <2>1. UNCHANGED <<cell, frees, referenced, dfree, registered, it>>
    BY <1>1 DEF objVars
  <2>2. Live' = Live
    BY <2>1 DEF Live
  <2>3. ObjectType' /\ FreesInv'
    BY <2>1, <2>2 DEF ObjectType, FreesInv
  <2>4. IteratorInv'
    BY <1>1, <2>1 DEF IteratorInv
  <2>5. QED
    BY <2>3, <2>4
<1>2. ASSUME NEW o \in Obj, Allocate(o) PROVE I'
  <2>1. /\ cell[o] # "live" /\ cell' = [cell EXCEPT ![o] = "live"]
        /\ frees' = [frees EXCEPT ![o] = 0] /\ referenced' = referenced \cup {o}
        /\ dfree' = dfree \cup {o} /\ registered' = registered /\ it' = it
        /\ pc' = "idle" /\ instance' = "made"
    BY <1>2 DEF Allocate, Ready, apiVars
  <2>2. Live' = Live \cup {o} /\ o \notin Live
    BY <2>1 DEF Live, ObjectType
  <2>3. ObjectType'
    BY <2>1, <2>2 DEF ObjectType
  <2>4. FreesInv'
    BY <2>1 DEF FreesInv, ObjectType
  <2>5. IteratorInv'
    BY <2>1 DEF IteratorInv
  <2>6. QED
    BY <2>3, <2>4, <2>5
<1>3. ASSUME NEW o \in Obj, Register(o) PROVE I'
  <2>1. /\ o \in dfree /\ registered' = registered \cup {o} /\ pc' = "idle"
        /\ UNCHANGED <<cell, frees, referenced, dfree, it, instance>>
    BY <1>3 DEF Register, Unconstructed, apiVars
  <2>2. Live' = Live
    BY <2>1 DEF Live
  <2>3. QED
    BY <2>1, <2>2 DEF ObjectType, FreesInv, IteratorInv
<1>4. ASSUME NEW o \in Obj, Drop(o) PROVE I'
  <2>1. /\ referenced' = referenced \ {o} /\ pc' = "idle"
        /\ UNCHANGED <<cell, frees, dfree, registered, it, instance>>
    BY <1>4 DEF Drop, Ready, apiVars
  <2>2. Live' = Live
    BY <2>1 DEF Live
  <2>3. QED
    BY <2>1, <2>2 DEF ObjectType, FreesInv, IteratorInv
<1>5. ASSUME NEW o \in Obj, Collect(o) PROVE I'
  <2>1. {o} \subseteq Live /\ Reclaim({o}) /\ pc' = "idle" /\ UNCHANGED <<it, instance>>
    BY <1>5 DEF Collect, apiVars
  <2>2. ObjectType' /\ FreesInv' /\ dfree' = dfree \ {o}
    BY <2>1, ReclaimStep
  <2>3. QED
    BY <2>1, <2>2 DEF IteratorInv
<1>6. ASSUME NEW b \in BOOLEAN, Leave(b) PROVE I'
  <2>1. /\ pc' \in {"cleanup", "free"} /\ it' = First(registered) /\ Unconstructed = {}
        /\ instance' = "made" /\ UNCHANGED <<cell, frees, referenced, dfree, registered>>
    BY <1>6 DEF Leave
  <2>2. registered \subseteq Obj /\ dfree \subseteq registered
    BY <2>1 DEF Unconstructed, ObjectType, Live
  <2>3. IF registered = {} THEN it' = End ELSE it' \in registered /\ \A o \in registered : it' <= o
    BY <2>1, <2>2, FirstIsLeast
  <2>4. Live' = Live
    BY <2>1 DEF Live
  <2>5. QED
    BY <2>1, <2>2, <2>3, <2>4 DEF ObjectType, FreesInv, IteratorInv
<1>7. CASE Cleanup
  <2>1. /\ Reclaim(Live) /\ pc' = "free" /\ it' = First(registered') /\ instance' = "made"
    BY <1>7 DEF Cleanup, StageInv
  <2>2. ObjectType' /\ FreesInv' /\ dfree' = dfree \ Live /\ registered' = registered \ Live
    BY <2>1, ReclaimStep
  <2>3. dfree' = {} /\ registered' = {}
    BY <2>2 DEF ObjectType
  <2>4. it' = End
    BY <2>1, <2>3 DEF First
  <2>5. QED
    BY <2>1, <2>2, <2>3, <2>4 DEF IteratorInv
<1>8. CASE FreeNext
  <2>1. /\ pc = "free" /\ it # End /\ it \in registered /\ \A o \in registered : it <= o
    BY <1>8 DEF FreeNext, IteratorInv
  <2>2. it \in dfree /\ registered \subseteq Obj /\ it \in Live
    BY <2>1 DEF ObjectType, Live
  <2>3. /\ it' = First({p \in registered : p > it}) /\ pc' = "free" /\ instance' = "made"
        /\ frees' = [o \in Obj |-> IF o \in {it} THEN frees[o] + 1 ELSE frees[o]]
        /\ registered' = registered \ {it} /\ dfree' = dfree \ {it}
        /\ UNCHANGED <<cell, referenced>>
    BY <1>8, <2>1, <2>2 DEF FreeNext, Incremented, Successor, Freeable, Free, ForgetFree,
       Unregister,
         StageInv, apiVars
  <2>4. registered' = {p \in registered : p > it}
    <3>1. it \in Nat /\ \A p \in registered : p \in Nat
      BY <2>1, <2>2, ObjAssumption
    <3>2. \A p \in registered : p # it <=> p > it
      BY <2>1, <3>1
    <3>3. QED
      BY <2>3, <3>2
  <2>5. IF registered' = {} THEN it' = End
        ELSE it' \in registered' /\ \A o \in registered' : it' <= o
    BY <2>2, <2>3, <2>4, FirstIsLeast
  <2>6. Live' = Live
    BY <2>3 DEF Live
  <2>7. ObjectType' /\ FreesInv'
    BY <2>2, <2>3, <2>6 DEF ObjectType, FreesInv, Live
  <2>8. IteratorInv'
    <3>1. dfree' \subseteq registered' /\ registered' \subseteq Obj
      BY <2>1, <2>2, <2>3 DEF IteratorInv
    <3>2. it' \in Obj \cup {End}
      BY <2>5, <3>1
    <3>3. QED
      BY <2>3, <2>5, <3>1, <3>2 DEF IteratorInv
  <2>9. QED
    BY <2>7, <2>8
<1>9. CASE FreeDone
  <2>1. /\ registered = {} /\ registered' = {} /\ dfree = {} /\ pc' \in {"close", "idle"}
        /\ UNCHANGED <<cell, frees, referenced, dfree, it, instance>>
    BY <1>9, <1>0 DEF FreeDone, IteratorInv, ObjectType, Live, apiVars
  <2>2. Live' = Live
    BY <2>1 DEF Live
  <2>3. QED
    BY <2>1, <2>2 DEF ObjectType, FreesInv, IteratorInv
<1>10. CASE CloseLibrary
  <2>1. /\ dfree = {} /\ registered = {} /\ pc' = "idle" /\ instance' = "destroyed"
        /\ UNCHANGED <<cell, frees, referenced, dfree, registered, it>>
    BY <1>10 DEF CloseLibrary, IteratorInv, objVars
  <2>2. Live' = Live
    BY <2>1 DEF Live
  <2>3. QED
    BY <2>1, <2>2 DEF ObjectType, FreesInv, IteratorInv
<1>11. CASE HostCleansUp
  <2>1. /\ Reclaim(IF ruby = HostRuby THEN Live ELSE {}) /\ pc' = "idle"
          /\ UNCHANGED <<it, instance>>
    BY <1>11 DEF HostCleansUp, apiVars
  <2>2. PICK objects : objects \subseteq Live /\ Reclaim(objects)
    BY <2>1
  <2>3. ObjectType' /\ FreesInv' /\ dfree' = dfree \ objects
    BY <2>2, ReclaimStep
  <2>4. QED
    BY <2>1, <2>3 DEF IteratorInv
<1>12. QED
  BY <1>1, <1>2, <1>3, <1>4, <1>5, <1>6, <1>7, <1>8, <1>9, <1>10, <1>11, ObjectSteps

\* The rest of the state.
RestType ==
  /\ {initialized, hostHas, late, exiting} \subseteq BOOLEAN
  /\ rubyopt \in {"none", "bundler", "other", "cleared"}

LEMMA RestStep == RestType /\ [Next]_vars => RestType'
<1> SUFFICES ASSUME RestType, [Next]_vars PROVE RestType'
  OBVIOUS
<1> USE DEF RestType, apiVars, vmVars
<1>1. CASE GetInstance
  BY <1>1 DEF GetInstance
<1>2. CASE FindLoaded
  BY <1>2 DEF FindLoaded
<1>3. CASE TryLocation
  BY <1>3 DEF TryLocation, Try
<1>4. CASE TryVariable
  BY <1>4 DEF TryVariable, Try
<1>5. CASE TryPath
  BY <1>5 DEF TryPath, Try
<1>6. CASE Create
  BY <1>6 DEF Create
<1>7. CASE Initialize
  BY <1>7 DEF Initialize
<1>8. CASE SetUp
  BY <1>8 DEF SetUp
<1>9. CASE RunOptions
  BY <1>9 DEF RunOptions
<1>10. CASE GetValues
  BY <1>10 DEF GetValues
<1>11. CASE Uninitialize
  BY <1>11 DEF Uninitialize, Leave
<1>12. CASE Exit
  BY <1>12 DEF Exit, Leave
<1>13. CASE Cleanup
  BY <1>13 DEF Cleanup
<1>14. CASE FreeNext
  BY <1>14 DEF FreeNext
<1>15. CASE FreeDone
  BY <1>15 DEF FreeDone
<1>16. CASE CloseLibrary
  BY <1>16 DEF CloseLibrary
<1>17. CASE HostLoads
  BY <1>17 DEF HostLoads
<1>19. CASE HostCleansUp
  BY <1>19 DEF HostCleansUp
<1>20. CASE HostUnloads
  BY <1>20 DEF HostUnloads
<1>21. ASSUME NEW o \in Obj, Allocate(o) PROVE RestType'
  BY <1>21 DEF Allocate
<1>22. ASSUME NEW o \in Obj, Register(o) PROVE RestType'
  BY <1>22 DEF Register
<1>23. ASSUME NEW o \in Obj, Drop(o) PROVE RestType'
  BY <1>23 DEF Drop
<1>24. ASSUME NEW o \in Obj, Collect(o) PROVE RestType'
  BY <1>24 DEF Collect
<1>25. CASE Over \/ UNCHANGED vars
  BY <1>25 DEF Over, vars
<1> QED
  BY <1>1, <1>2, <1>3, <1>4, <1>5, <1>6, <1>7, <1>8, <1>9, <1>10, <1>11, <1>12, <1>13,
  <1>14, <1>15, <1>16, <1>17, <1>19, <1>20, <1>21, <1>22, <1>23, <1>24, <1>25 DEF
  Next

RubyInv ==
  /\ StageInv /\ HandleType /\ HandleInv /\ SearchInv /\ VmType /\ VmInv
  /\ ObjectType /\ FreesInv /\ IteratorInv /\ RestType

\* The start.
LEMMA InitInv == Init => RubyInv
<1> SUFFICES ASSUME Init PROVE RubyInv
  OBVIOUS
<1> USE ConfigAssumption, LibraryAssumption DEF Init
<1>1. StageInv
  BY DEF StageInv, Point, Searching
<1>2. HandleType /\ HandleInv
  <2>1. cfg \in Config /\ cfg.platform \in {"posix", "windows"} /\ cfg.loadable \subseteq Library
    BY DEF Config
  <2>2. lib["search"] = Unloaded /\ lib["api"] = Unloaded
    OBVIOUS
  <2>a. hostHas <=> HostEarly
    BY Zenon
  <2>b. \A l \in Library : refs[l] = IF l = HostRuby /\ hostHas THEN 1 ELSE 0
    BY <2>a
  <2>3. HandleInv
    BY <2>2, <2>b DEF HandleInv, Unloaded, One
  <2>c. visible = IF HostEarly /\ cfg.host = "global" THEN {HostRuby} ELSE {}
    OBVIOUS
  <2>d. visible \subseteq {l \in Library : refs[l] > 0} /\ refs \in [Library -> Nat]
    BY <2>a, <2>b, <2>c
  <2>e. hostHas \in BOOLEAN
    BY Zenon DEF HostEarly
  <2>4. HandleType
    BY <2>1, <2>d, <2>e DEF HandleType, LibraryOK, Unloaded, Handles
  <2>5. QED
    BY <2>3, <2>4
<1>3. SearchInv
  BY DEF SearchInv, ChoosesFirst
<1>4. VmType
  BY DEF VmType
<1>5. VmInv
  <2>1. (hostHas <=> HostEarly) /\ (HostEarly => cfg.host # "none")
    BY Zenon DEF HostEarly
  <2>2. \A l \in Library : /\ vm[l] = IF l = HostRuby /\ hostHas THEN "up" ELSE "down"
                           /\ owner[l] = IF l = HostRuby /\ hostHas THEN "host" ELSE "nobody"
    BY <2>1
  <2>3. cfg.host = "global" /\ hostHas => HostRuby \in visible
    <3>1. visible = IF HostEarly /\ cfg.host = "global" THEN {HostRuby} ELSE {}
      OBVIOUS
    <3>2. QED
      BY <2>1, <3>1
  <2>4. lib["search"] = Unloaded /\ lib["api"] = Unloaded
    OBVIOUS
  <2>5. QED
    BY <2>1, <2>2, <2>3, <2>4 DEF VmInv, HostVm, ApiVm, HostsUp, Unloaded
<1>6. ObjectType /\ FreesInv /\ IteratorInv
  BY DEF ObjectType, FreesInv, IteratorInv, Live
<1>7. RestType
  BY DEF RestType, HostEarly, Config
<1>8. QED
  BY <1>1, <1>2, <1>3, <1>4, <1>5, <1>6, <1>7 DEF RubyInv

\* The inductive invariant.
THEOREM RubyInvariant == Spec => []RubyInv
<1>1. RubyInv /\ [Next]_vars => RubyInv'
  BY StageStep, HandleStep, SearchStep, VmStep, ObjectStep, RestStep DEF RubyInv
<1>2. QED
  BY InitInv, <1>1, PTL DEF Spec

\* Handles are counted right and nobody's is lost or closed by another, the
\* library of the API is there as long as the API is, and it is the right one.
THEOREM LibraryIsSound == Spec => []LibrarySound
<1>1. RubyInv => LibrarySound
  <2> SUFFICES ASSUME RubyInv PROVE LibrarySound
    OBVIOUS
  <2>1. TypeOK
    BY DEF RubyInv, TypeOK, StageInv, HandleType, VmType, ObjectType, IteratorInv, RestType, Live
  <2>2. HandlesOwned
    <3> SUFFICES ASSUME NEW l \in Library
                 PROVE  refs[l] = Cardinality(Owned(l)) + IF l = HostRuby /\ hostHas THEN 1 ELSE 0
      BY DEF HandlesOwned
    <3>1. QED
      BY OwnedCount DEF RubyInv, HandleInv, One
  <2>3. LibraryHeld
    <3> SUFFICES ASSUME instance = "made", lib["api"].handle # Program PROVE refs[ruby] > 0
      BY DEF LibraryHeld
    <3>1. ruby \in Library /\ ruby = lib["api"].handle
      BY RubyThere DEF RubyInv, HandleInv
    <3>2. QED
      BY <3>1 DEF RubyInv, HandleInv, One
  <2>4. QED
    BY <2>1, <2>2, <2>3 DEF LibrarySound, RubyInv, SearchInv
<1>2. QED
  BY <1>1, RubyInvariant, PTL

\* Every native object is freed once, by the collector, a cleanup of the VM or
\* uninitialize, and uninitialize never steps on one that is gone.
THEOREM ObjectsAreSound == Spec => []ObjectsSound
<1>1. RubyInv => ObjectsSound
  <2> SUFFICES ASSUME RubyInv PROVE ObjectsSound
    OBVIOUS
  <2>1. FreedOnce
    BY DEF RubyInv, FreesInv, FreedOnce
  <2>2. AllFreed
    BY DEF RubyInv, FreesInv, IteratorInv, AllFreed
  <2>3. IteratorValid
    BY DEF RubyInv, IteratorInv, ObjectType, Live, IteratorValid
  <2>4. QED
    BY <2>1, <2>2, <2>3 DEF ObjectsSound
<1>2. QED
  BY <1>1, RubyInvariant, PTL

\* The API cleans up only a VM that is up and that it brought up itself, unless
\* the host's could not be seen or came later, and first_load is right whenever a
\* library is loaded.
THEOREM VmIsSound == Spec => VmSound
<1>1. RubyInv /\ [Next]_vars => FirstLoadRight /\ OwnVmOnly
  <2> SUFFICES ASSUME RubyInv, [Next]_vars PROVE FirstLoadRight /\ OwnVmOnly
    OBVIOUS
  <2>1. FirstLoadRight
    <3>1. \A o \in Holder : FreshOrMoved(o)
      BY FirstSteps DEF RubyInv
    <3>2. QED
      BY <3>1 DEF FirstLoadRight, FreshOrMoved
  <2>2. OwnVmOnly
    <3> SUFFICES ASSUME pc = "cleanup", Seen PROVE vm[ruby] = "up" /\ owner[ruby] = "api"
      BY DEF OwnVmOnly
    <3>1. ruby \in Library /\ ruby = lib["api"].handle /\ lib["api"].first
      BY RubyThere DEF RubyInv, StageInv, VmInv, ApiVm
    <3>2. vm[ruby] = "up" /\ ~HostsUp(ruby)
      BY <3>1, LibraryAssumption DEF RubyInv, VmInv, ApiVm, HostVm
    <3>3. QED
      BY <3>1, <3>2 DEF HostsUp, RubyInv, VmType, VmInv, HostVm
  <2>3. QED
    BY <2>1, <2>2
<1>2. QED
  BY <1>1, RubyInvariant, PTL DEF Spec, VmSound
=============================================================================
