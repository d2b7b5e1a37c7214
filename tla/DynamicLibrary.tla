---------------------------- MODULE DynamicLibrary ----------------------------
(***************************************************************************)
(* dynamic_library objects (dynamic_library/src), each of which owns a     *)
(* handle to a library of the process or none.  The system counts the      *)
(* handles of every library.  This module gives the operations; a module   *)
(* that uses the objects says when they are called.                        *)
(***************************************************************************)
EXTENDS Integers

CONSTANTS
  Holder,     \* the dynamic_library objects
  Library     \* the libraries that there are to load

NoHandle == "no handle"
Program == "program"   \* what dlopen(nullptr) returns: no library in particular

VARIABLES
  platform,   \* "posix" or "windows"
  loadable,   \* the libraries that load
  refs,       \* how many handles of each library the process has
  visible,    \* the libraries loaded so that the whole program sees them
  lib         \* the handle of each object, and its first_load

libraryVars == <<platform, loadable, refs, visible, lib>>

Unloaded == [handle |-> NoHandle, first |-> FALSE]
Handles == Library \cup {NoHandle, Program}

IsLoaded(o) == lib[o].handle # NoHandle
Becomes(o, handle, first) == lib' = [lib EXCEPT ![o] = [handle |-> handle, first |-> first]]

OpenedWithoutReference(r, l) == r
Opened(r, l) == [r EXCEPT ![l] = @ + 1]
\* dlclose and FreeLibrary
Released(r, handle) == IF handle \in Library THEN [r EXCEPT ![handle] = @ - 1] ELSE r

CountsStayVisible(r) == refs' = r /\ UNCHANGED visible
\* The counts become r; a library nobody has open any more is not visible.
Counts(r) == refs' = r /\ visible' = {l \in visible : r[l] > 0}

\* close, which the destructor and load call too
Close(o) ==
  /\ Counts(Released(refs, lib[o].handle))
  /\ Becomes(o, NoHandle, FALSE)
  /\ UNCHANGED <<platform, loadable>>

MoveKeepingSource(to, from) ==
  /\ Counts(Released(refs, lib[to].handle))
  /\ lib' = [lib EXCEPT ![to] = lib[from]]
  /\ UNCHANGED <<platform, loadable>>
\* operator=(dynamic_library&&), for two objects
Move(to, from) ==
  /\ Counts(Released(refs, lib[to].handle))
  /\ lib' = [lib EXCEPT ![to] = lib[from], ![from] = Unloaded]
  /\ UNCHANGED <<platform, loadable>>

\* On Windows: the first loaded module whose name matches, with a reference of
\* its own.  The snapshot may fail.
FindByPattern(o, matching) ==
  /\ \/ /\ platform = "windows"
        /\ \E l \in {k \in matching : refs[k] > 0} :
             Counts(Opened(refs, l)) /\ Becomes(o, l, FALSE)
     \/ Counts(refs) /\ Becomes(o, NoHandle, FALSE)
  /\ UNCHANGED <<platform, loadable>>

\* On POSIX: the handle of the program, if a visible library has the symbol.
FindBySymbol(o, having) ==
  /\ Counts(refs)
  /\ IF platform = "posix" /\ visible \cap having # {} THEN Becomes(o, Program, FALSE)
     ELSE Becomes(o, NoHandle, FALSE)
  /\ UNCHANGED <<platform, loadable>>

EveryLoadIsFirst(r, l) == TRUE
\* POSIX takes every load for the first; Windows asks if the library is there.
IsFirst(r, l) == platform = "posix" \/ r[l] = 0

\* load, with `global' false
Load(o, l) ==
  LET closed == Released(refs, lib[o].handle) IN
  /\ IF l \in loadable
     THEN Counts(Opened(closed, l)) /\ Becomes(o, l, IsFirst(closed, l))
     ELSE Counts(closed) /\ Becomes(o, NoHandle, FALSE)
  /\ UNCHANGED <<platform, loadable>>

\* How many of the handles of l the objects own.
Owned(l) == {o \in Holder : lib[o].handle = l}

LibraryOK ==
  /\ platform \in {"posix", "windows"} /\ loadable \subseteq Library
  /\ refs \in [Library -> Nat] /\ visible \subseteq {l \in Library : refs[l] > 0}
  /\ lib \in [Holder -> [handle : Handles, first : BOOLEAN]]

\* first_load is true of an object only if nothing had the library loaded
\* before ("Returns true if the library was loaded for the first time"): on
\* Windows always, on POSIX for a library that find_by_symbol would have found.
FirstLoadRight ==
  \A o \in Holder :
    lib'[o].first /\ (\A p \in Holder : ~lib[p].first) =>
      refs[lib'[o].handle] = 0
        \/ (platform = "posix" /\ lib'[o].handle \notin visible)
=============================================================================
